---- MODULE Spec2Model ----
(***************************************************************************)
(* A model of GeneCrawler's record store (genecrawler/database.py), name   *)
(* matching (genecrawler/utils.py), region resolution                      *)
(* (genecrawler/location.py), persons (genecrawler/models.py), the forms   *)
(* of the four site drivers (genecrawler/searchers), the paging loop of    *)
(* the Geneteka driver, the loop of main over the persons                  *)
(* (genecrawler/cli.py) and the record browser (genecrawler_tui.py).       *)
(*                                                                         *)
(* Text values are sequences of one-character strings, so that lower(),    *)
(* upper(), strip() and split() are computed as Python computes them.      *)
(* Letters with diacritics are written as two-symbol names ("l/" for the   *)
(* l with stroke, "o'" for the o with acute, "a," for the a with ogonek).  *)
(* Python's None and SQL's NULL are the value None, which is no text.      *)
(***************************************************************************)
EXTENDS Integers, Sequences, FiniteSets, TLC

VARIABLES
    table,      \* matched_records: a set of rows
    nextId,     \* the next AUTOINCREMENT id of matched_records
    clock,      \* CURRENT_TIMESTAMP, in seconds
    person,     \* upsert_match: the person argument of the latest call
    result,     \* upsert_match: the result dictionary of the latest call
    source,     \* upsert_match: the source argument of the latest call
    ret,        \* upsert_match: "True", "False", the name of the exception raised, or "none" before any call
    calls,      \* number of upsert_match calls made
    retrieved,  \* retrieved_records: a set of rows
    lookup,     \* has_matched_records: the person id asked for, when it is the latest call on the store
    lookupret,  \* has_matched_records: what that call returned or raised
    use_nominatim,  \* LocationParser.use_nominatim (the geolocator is set exactly when it is True)
    cache,      \* LocationParser._cache: place string -> region or None
    pcache,     \* table nominatim_cache: query -> voivodeship or NULL
    places,     \* the place strings of the persons being read
    place,      \* parse_voivodeship: the argument of the latest call
    locret,     \* parse_voivodeship: the value returned by the latest call
    geocoded,   \* the latest call called geolocator.geocode
    dbread,     \* the latest call ran the SELECT on nominatim_cache
    dbwrite,    \* the latest call ran the INSERT OR REPLACE on nominatim_cache
    first,      \* history: place string -> what the first call on this instance returned
    seen,       \* history: the latest call's place string had been parsed on this instance before
    failed,     \* history: the towns whose latest geocoder call raised
    hadfailed,  \* history: when the latest call began, the latest geocoder call for its town had raised
    location,   \* what geolocator.geocode answered in the latest call (kind "no call" when it was not called)
    writefault, \* the INSERT OR REPLACE of the latest call failed with a storage fault
    persons,    \* main: the persons of the run, in the order they are gone through
    cur,        \* main: the index in persons of the person being processed
    pc,         \* main: the block of the loop body that comes next
    databases,  \* main: the drivers selected
    forms,      \* the forms the latest driver submitted
    driver,     \* the driver run latest
    details,    \* process_matches: the rows of the latest result not yet gone through
    invoked,    \* history: the <<person index, driver>> pairs for which a driver was run
    polish,     \* what the latest has_polish_connection call of main returned
    trace,      \* history: the driver runs of main, as <<person index, driver>>, in the order they were made
    nfailed,    \* history: how many of the driver runs failed
    answered,   \* history: the towns for which the geocoder has returned an answer that was to be stored
    max_pages,  \* GenetekaSearcher.max_pages: <<>> for None, <<n>> for the integer n
    npages,     \* the result pages the site has for the query submitted (0: no result table)
    page_num,   \* the paging loop's page_num
    nparsed,    \* history: the result pages parsed for the query submitted
    ploop,      \* where the search for one record type and region is: "idle", "paging", "done"
    ended,      \* why the paging loop ended: "none", "no table", "limit", "no next", "error"
    records,    \* MatchedRecordsBrowser.records
    filtered_records,   \* MatchedRecordsBrowser.filtered_records
    current_row,        \* MatchedRecordsBrowser.current_row
    scroll_offset,      \* MatchedRecordsBrowser.scroll_offset
    search_mode,        \* MatchedRecordsBrowser.search_mode
    details_mode,       \* MatchedRecordsBrowser.details_mode
    search_query,       \* MatchedRecordsBrowser.search_query
    height,     \* the terminal height stdscr.getmaxyx() reports
    running,    \* run: the main loop of the browser goes on
    navonly     \* history: only navigation keys have been pressed so far

dbvars ==
    <<table, nextId, clock, person, result, source, ret, calls, retrieved, lookup, lookupret>>

locvars ==
    <<use_nominatim, cache, pcache, places, place, locret, geocoded, dbread, dbwrite,
      first, seen, failed, hadfailed, location, writefault, answered>>

runvars == <<persons, cur, pc, databases, forms, driver, details, invoked, polish, trace, nfailed>>

pagevars == <<max_pages, npages, page_num, nparsed, ploop, ended>>

tuivars ==
    <<records, filtered_records, current_row, scroll_offset, search_mode, details_mode,
      search_query, height, running, navonly>>

vars ==
    <<table, nextId, clock, person, result, source, ret, calls, retrieved, lookup, lookupret,
      use_nominatim, cache, pcache, places, place, locret, geocoded, dbread, dbwrite,
      first, seen, failed, hadfailed, location, writefault, answered,
      persons, cur, pc, databases, forms, driver, details, invoked, polish, trace, nfailed,
      max_pages, npages, page_num, nparsed, ploop, ended,
      records, filtered_records, current_row, scroll_offset, search_mode, details_mode,
      search_query, height, running, navonly>>

----------------------------------------------------------------------------
(* Bounds *)

\* most result pages the site has for one query
MaxSitePages == 4

\* largest integer given as --max-pages
MaxPagesArg == 3

\* most rows of matched_records the browser reads
MaxRecords == 3

\* most record rows the terminal has room for
MaxRows == 2

\* longest search query typed
MaxQueryLen == 2

\* longest given name drawn as an input of the name-matching specification
MaxGivenLen == 3
\* number of upsert_match calls in the record-store specification
MaxCalls == 2
\* seconds the clock may advance
MaxClock == 1
\* number of distinct place strings among the persons being read
MaxPlaces == 2
\* number of persons in a run
MaxPersons == 2

----------------------------------------------------------------------------
(* Python values and string methods *)

None == <<"<None>">>

\* a dictionary key that is not present (used only to enumerate dictionaries)
Absent == <<"<absent>">>

\* Python truthiness of an Optional[str]
Truthy(v) == v # None /\ v # <<>>

IsSpace(c) == c = " "

LowerChars == <<"a","b","c","d","e","f","g","h","i","j","k","l","m","n","o","p","q","r","s","t","u","v","w","x","y","z","o'","a,","c'","e,","l/","n'","s'","z'","z.">>

UpperChars == <<"A","B","C","D","E","F","G","H","I","J","K","L","M","N","O","P","Q","R","S","T","U","V","W","X","Y","Z","O'","A,","C'","E,","L/","N'","S'","Z'","Z.">>

LowerCh(c) ==
    IF \E i \in 1..Len(UpperChars) : UpperChars[i] = c
    THEN LowerChars[CHOOSE i \in 1..Len(UpperChars) : UpperChars[i] = c]
    ELSE c

UpperCh(c) ==
    IF \E i \in 1..Len(LowerChars) : LowerChars[i] = c
    THEN UpperChars[CHOOSE i \in 1..Len(LowerChars) : LowerChars[i] = c]
    ELSE c

\* str.lower()
Lower(s) == [i \in 1..Len(s) |-> LowerCh(s[i])]

\* str.upper()
Upper(s) == [i \in 1..Len(s) |-> UpperCh(s[i])]

RECURSIVE LStrip(_)
LStrip(s) == IF s # <<>> /\ IsSpace(Head(s)) THEN LStrip(Tail(s)) ELSE s

RECURSIVE RStrip(_)
RStrip(s) ==
    IF s # <<>> /\ IsSpace(s[Len(s)]) THEN RStrip(SubSeq(s, 1, Len(s) - 1)) ELSE s

\* str.strip()
Strip(s) == RStrip(LStrip(s))

\* index of the first whitespace character of s, Len(s) + 1 when there is none
FirstSpace(s) ==
    IF \E i \in 1..Len(s) : IsSpace(s[i])
    THEN CHOOSE i \in 1..Len(s) : IsSpace(s[i]) /\ \A j \in 1..(i - 1) : ~IsSpace(s[j])
    ELSE Len(s) + 1

\* str.split() without a separator: the whitespace-delimited tokens of s
RECURSIVE Split(_)
Split(s) ==
    CHOOSE r \in {IF t = <<>> THEN <<>>
                  ELSE <<SubSeq(t, 1, FirstSpace(t) - 1)>> \o Split(SubSeq(t, FirstSpace(t), Len(t)))
                  : t \in {LStrip(s)}} : TRUE

\* str.split(sep) for a one-character separator
RECURSIVE SplitOn(_, _)
SplitOn(s, sep) ==
    IF s = <<>> THEN << <<>> >>
    ELSE LET rest == SplitOn(Tail(s), sep)
         IN  IF Head(s) = sep THEN << <<>> >> \o rest
             ELSE << <<Head(s)>> \o rest[1] >> \o Tail(rest)

\* sub in s
Contains(s, sub) ==
    \E i \in 1..(Len(s) - Len(sub) + 1) : SubSeq(s, i, i + Len(sub) - 1) = sub

\* d[key] = value
DictSet(d, key, value) ==
    [k \in DOMAIN d \cup {key} |-> IF k = key THEN value ELSE d[k]]

\* dict.get(key, default)
Get(d, key, default) == IF key \in DOMAIN d THEN d[key] ELSE default

\* the dictionary holding the keys of f whose value is not Absent
MkDict(f) == [k \in {k \in DOMAIN f : f[k] # Absent} |-> f[k]]

\* all texts over alphabet A of length at most n
RECURSIVE StringsUpTo(_, _)
StringsUpTo(A, n) ==
    IF n = 0 THEN {<<>>}
    ELSE LET S == StringsUpTo(A, n - 1)
         IN  S \cup {Append(s, c) : s \in {t \in S : Len(t) = n - 1}, c \in A}

----------------------------------------------------------------------------
(* genecrawler/utils.py *)

\* extract_first_name(full_name): val is the value returned, exc the
\* exception raised ("" when none is)
ExtractFirstName(full_name) ==
    IF ~Truthy(full_name) THEN [exc |-> "", val |-> <<>>]
    ELSE CHOOSE r \in {IF toks = <<>>
                       THEN [exc |-> "IndexError", val |-> <<>>]
                       ELSE [exc |-> "", val |-> toks[1]]
                       : toks \in {Split(Strip(full_name))}} : TRUE

----------------------------------------------------------------------------
(* genecrawler/database.py: matched_records and upsert_match *)

\* the columns of UNIQUE(...) of matched_records
KeyColumns ==
    {"person_id", "source", "record_type", "year", "parish",
     "result_given_name", "result_surname"}

\* the rows of tbl an INSERT OR REPLACE of row new deletes: those that
\* violate the UNIQUE constraint together with new. SQLite compares NULL as
\* distinct from every value, NULL included.
Conflicts(tbl, new) ==
    {t \in tbl : \A k \in KeyColumns : t[k] # None /\ new[k] # None /\ t[k] = new[k]}

\* INSERT OR REPLACE INTO matched_records ... VALUES (..., CURRENT_TIMESTAMP)
InsertOrReplace(tbl, new) == (tbl \ Conflicts(tbl, new)) \cup {new}

\* the comparison of upsert_match: first names and surnames, case-insensitive
NamesMatchPrefix(person_first_name, result_first_name, person_surname, result_surname) ==
    /\ Len(Strip(Lower(result_first_name))) >= Len(Strip(Lower(person_first_name)))
    /\ SubSeq(Strip(Lower(result_first_name)), 1, Len(Strip(Lower(person_first_name))))
         = Strip(Lower(person_first_name))
    /\ Strip(Lower(result_surname)) = Strip(Lower(person_surname))

\* the comparison of the surnames alone
NamesMatchSurnameOnly(person_first_name, result_first_name, person_surname, result_surname) ==
    Strip(Lower(result_surname)) = Strip(Lower(person_surname))

NamesMatch(person_first_name, result_first_name, person_surname, result_surname) ==
    /\ Strip(Lower(result_first_name)) = Strip(Lower(person_first_name))
    /\ Strip(Lower(result_surname)) = Strip(Lower(person_surname))

\* has_matched_records is not the latest call on the store
NoLookup == <<"<no lookup>">>

\* the row upsert_match writes
NewRow(p, r, s) ==
    [id                |-> nextId,
     person_id         |-> p.id,
     person_given_name |-> p.given_name,
     person_surname    |-> p.surname,
     record_type       |-> Get(r, "type", <<>>),
     source            |-> s,
     voivodeship       |-> Get(r, "voivodeship", <<>>),
     year              |-> Get(r, "year", <<>>),
     act               |-> Get(r, "act", <<>>),
     result_given_name |-> Get(r, "given_name", <<>>),
     result_surname    |-> Get(r, "surname", <<>>),
     father_given_name |-> Get(r, "father_given_name", <<>>),
     mother_given_name |-> Get(r, "mother_given_name", <<>>),
     mother_surname    |-> Get(r, "mother_surname", <<>>),
     parish            |-> Get(r, "parish", <<>>),
     locality          |-> Get(r, "locality", <<>>),
     link              |-> Get(r, "link", <<>>),
     raw_data          |-> r,
     found_timestamp   |-> clock]

\* what upsert_match(p, r, s) returns or raises, and the table it leaves
UpsertOutcome(p, r, s) ==
    LET result_given_name == Get(r, "given_name", <<>>)
        result_surname    == Get(r, "surname", <<>>)
        person_first      == ExtractFirstName(p.given_name)
        result_first      == ExtractFirstName(result_given_name)
    IN  IF ~(Truthy(result_given_name) /\ Truthy(result_surname))
        THEN [ret |-> "False", tbl |-> table, stored |-> FALSE]
        ELSE IF person_first.exc # ""
        THEN [ret |-> person_first.exc, tbl |-> table, stored |-> FALSE]
        ELSE IF result_first.exc # ""
        THEN [ret |-> result_first.exc, tbl |-> table, stored |-> FALSE]
        ELSE IF NamesMatch(person_first.val, result_first.val, p.surname, result_surname)
        THEN [ret |-> "True", tbl |-> InsertOrReplace(table, NewRow(p, r, s)), stored |-> TRUE]
        ELSE [ret |-> "False", tbl |-> table, stored |-> FALSE]

\* MatchedRecordsDB.upsert_match(p, r, s)
upsert_match(p, r, s) ==
    \E out \in {UpsertOutcome(p, r, s)} :
        /\ table' = out.tbl
        /\ nextId' = IF out.stored THEN nextId + 1 ELSE nextId
        /\ ret' = out.ret
        /\ person' = p
        /\ result' = r
        /\ source' = s
        /\ calls' = calls + 1
        /\ lookup' = NoLookup
        /\ lookupret' = "none"
        /\ UNCHANGED <<clock, retrieved>>

\* MatchedRecordsDB.has_matched_records(person_id): neither MatchedRecordsDB
\* nor GeneCrawlerDB defines the attribute, so the call raises AttributeError
has_matched_records(person_id) ==
    /\ lookup' = person_id
    /\ lookupret' = "AttributeError"
    /\ UNCHANGED <<table, nextId, clock, person, result, source, ret, calls, retrieved>>

\* a second passes
Tick ==
    /\ clock < MaxClock
    /\ clock' = clock + 1
    /\ UNCHANGED <<table, nextId, person, result, source, ret, calls, retrieved, lookup, lookupret>>

----------------------------------------------------------------------------
(* genecrawler/location.py *)

\* LocationParser.VOIVODESHIP_MAPPING, as the set of its <<key, value>> pairs
VOIVODESHIP_MAPPING == {
    << <<"D","O","L","N","O","S'","L","A,","S","K","I","E">>,
       <<"d","o","l","n","o","s'","l","a,","s","k","i","e">> >>,
    << <<"D","O","L","N","O","S","L","A","S","K","I","E">>,
       <<"d","o","l","n","o","s'","l","a,","s","k","i","e">> >>,
    << <<"L","O","W","E","R"," ","S","I","L","E","S","I","A","N"," ","V","O","I","V","O","D","E","S","H","I","P">>,
       <<"d","o","l","n","o","s'","l","a,","s","k","i","e">> >>,
    << <<"L","O","W","E","R"," ","S","I","L","E","S","I","A">>,
       <<"d","o","l","n","o","s'","l","a,","s","k","i","e">> >>,
    << <<"K","U","J","A","W","S","K","O","-","P","O","M","O","R","S","K","I","E">>,
       <<"k","u","j","a","w","s","k","o","-","p","o","m","o","r","s","k","i","e">> >>,
    << <<"K","U","Y","A","V","I","A","N","-","P","O","M","E","R","A","N","I","A","N"," ","V","O","I","V","O","D","E","S","H","I","P">>,
       <<"k","u","j","a","w","s","k","o","-","p","o","m","o","r","s","k","i","e">> >>,
    << <<"K","U","Y","A","V","I","A","N","-","P","O","M","E","R","A","N","I","A","N">>,
       <<"k","u","j","a","w","s","k","o","-","p","o","m","o","r","s","k","i","e">> >>,
    << <<"L","U","B","E","L","S","K","I","E">>,
       <<"l","u","b","e","l","s","k","i","e">> >>,
    << <<"L","U","B","L","I","N"," ","V","O","I","V","O","D","E","S","H","I","P">>,
       <<"l","u","b","e","l","s","k","i","e">> >>,
    << <<"L","U","B","U","S","K","I","E">>,
       <<"l","u","b","u","s","k","i","e">> >>,
    << <<"L","U","B","U","S","Z"," ","V","O","I","V","O","D","E","S","H","I","P">>,
       <<"l","u","b","u","s","k","i","e">> >>,
    << <<"L/","O'","D","Z","K","I","E">>,
       <<"l/","o'","d","z","k","i","e">> >>,
    << <<"L/","O","D","Z","K","I","E">>,
       <<"l/","o'","d","z","k","i","e">> >>,
    << <<"L","O","D","Z","K","I","E">>,
       <<"l/","o'","d","z","k","i","e">> >>,
    << <<"L","O","D","Z"," ","V","O","I","V","O","D","E","S","H","I","P">>,
       <<"l/","o'","d","z","k","i","e">> >>,
    << <<"M","A","L/","O","P","O","L","S","K","I","E">>,
       <<"m","a","l/","o","p","o","l","s","k","i","e">> >>,
    << <<"M","A","L/","O","P","O","L","S","K","A">>,
       <<"m","a","l/","o","p","o","l","s","k","i","e">> >>,
    << <<"M","A","L","O","P","O","L","S","K","I","E">>,
       <<"m","a","l/","o","p","o","l","s","k","i","e">> >>,
    << <<"M","A","L","O","P","O","L","S","K","A">>,
       <<"m","a","l/","o","p","o","l","s","k","i","e">> >>,
    << <<"L","E","S","S","E","R"," ","P","O","L","A","N","D"," ","V","O","I","V","O","D","E","S","H","I","P">>,
       <<"m","a","l/","o","p","o","l","s","k","i","e">> >>,
    << <<"L","E","S","S","E","R"," ","P","O","L","A","N","D">>,
       <<"m","a","l/","o","p","o","l","s","k","i","e">> >>,
    << <<"M","A","Z","O","W","I","E","C","K","I","E">>,
       <<"m","a","z","o","w","i","e","c","k","i","e">> >>,
    << <<"M","A","S","O","V","I","A","N"," ","V","O","I","V","O","D","E","S","H","I","P">>,
       <<"m","a","z","o","w","i","e","c","k","i","e">> >>,
    << <<"M","A","S","O","V","I","A">>,
       <<"m","a","z","o","w","i","e","c","k","i","e">> >>,
    << <<"O","P","O","L","S","K","I","E">>,
       <<"o","p","o","l","s","k","i","e">> >>,
    << <<"O","P","O","L","E"," ","V","O","I","V","O","D","E","S","H","I","P">>,
       <<"o","p","o","l","s","k","i","e">> >>,
    << <<"P","O","D","K","A","R","P","A","C","K","I","E">>,
       <<"p","o","d","k","a","r","p","a","c","k","i","e">> >>,
    << <<"S","U","B","C","A","R","P","A","T","H","I","A","N"," ","V","O","I","V","O","D","E","S","H","I","P">>,
       <<"p","o","d","k","a","r","p","a","c","k","i","e">> >>,
    << <<"S","U","B","C","A","R","P","A","T","H","I","A">>,
       <<"p","o","d","k","a","r","p","a","c","k","i","e">> >>,
    << <<"P","O","D","L","A","S","K","I","E">>,
       <<"p","o","d","l","a","s","k","i","e">> >>,
    << <<"P","O","D","L","A","S","I","E">>,
       <<"p","o","d","l","a","s","k","i","e">> >>,
    << <<"P","O","D","L","A","C","H","I","A">>,
       <<"p","o","d","l","a","s","k","i","e">> >>,
    << <<"P","O","M","O","R","S","K","I","E">>,
       <<"p","o","m","o","r","s","k","i","e">> >>,
    << <<"P","O","M","E","R","A","N","I","A","N"," ","V","O","I","V","O","D","E","S","H","I","P">>,
       <<"p","o","m","o","r","s","k","i","e">> >>,
    << <<"P","O","M","E","R","A","N","I","A">>,
       <<"p","o","m","o","r","s","k","i","e">> >>,
    << <<"S'","L","A,","S","K","I","E">>,
       <<"s'","l","a,","s","k","i","e">> >>,
    << <<"S","L","A","S","K","I","E">>,
       <<"s'","l","a,","s","k","i","e">> >>,
    << <<"S","I","L","E","S","I","A","N"," ","V","O","I","V","O","D","E","S","H","I","P">>,
       <<"s'","l","a,","s","k","i","e">> >>,
    << <<"S","I","L","E","S","I","A">>,
       <<"s'","l","a,","s","k","i","e">> >>,
    << <<"S'","W","I","E,","T","O","K","R","Z","Y","S","K","I","E">>,
       <<"s'","w","i","e,","t","o","k","r","z","y","s","k","i","e">> >>,
    << <<"S","W","I","E","T","O","K","R","Z","Y","S","K","I","E">>,
       <<"s'","w","i","e,","t","o","k","r","z","y","s","k","i","e">> >>,
    << <<"H","O","L","Y"," ","C","R","O","S","S"," ","V","O","I","V","O","D","E","S","H","I","P">>,
       <<"s'","w","i","e,","t","o","k","r","z","y","s","k","i","e">> >>,
    << <<"W","A","R","M","I","N'","S","K","O","-","M","A","Z","U","R","S","K","I","E">>,
       <<"w","a","r","m","i","n'","s","k","o","-","m","a","z","u","r","s","k","i","e">> >>,
    << <<"W","A","R","M","I","N","S","K","O","-","M","A","Z","U","R","S","K","I","E">>,
       <<"w","a","r","m","i","n'","s","k","o","-","m","a","z","u","r","s","k","i","e">> >>,
    << <<"W","A","R","M","I","A","N","-","M","A","S","U","R","I","A","N"," ","V","O","I","V","O","D","E","S","H","I","P">>,
       <<"w","a","r","m","i","n'","s","k","o","-","m","a","z","u","r","s","k","i","e">> >>,
    << <<"W","I","E","L","K","O","P","O","L","S","K","I","E">>,
       <<"w","i","e","l","k","o","p","o","l","s","k","i","e">> >>,
    << <<"G","R","E","A","T","E","R"," ","P","O","L","A","N","D"," ","V","O","I","V","O","D","E","S","H","I","P">>,
       <<"w","i","e","l","k","o","p","o","l","s","k","i","e">> >>,
    << <<"G","R","E","A","T","E","R"," ","P","O","L","A","N","D">>,
       <<"w","i","e","l","k","o","p","o","l","s","k","i","e">> >>,
    << <<"Z","A","C","H","O","D","N","I","O","P","O","M","O","R","S","K","I","E">>,
       <<"z","a","c","h","o","d","n","i","o","p","o","m","o","r","s","k","i","e">> >>,
    << <<"W","E","S","T"," ","P","O","M","E","R","A","N","I","A","N"," ","V","O","I","V","O","D","E","S","H","I","P">>,
       <<"z","a","c","h","o","d","n","i","o","p","o","m","o","r","s","k","i","e">> >>,
    << <<"W","E","S","T"," ","P","O","M","E","R","A","N","I","A">>,
       <<"z","a","c","h","o","d","n","i","o","p","o","m","o","r","s","k","i","e">> >>
    }

NOT_CACHED == <<"_","_","N","O","T","_","C","A","C","H","E","D","_","_">>

Wojewodztwo == <<"w","o","j","e","w","o'","d","z","t","w","o">>

\* what geolocator.geocode does: it raises one of the three, returns None,
\* or returns a location with an address
GeocoderErrors == {"GeocoderTimedOut", "GeocoderServiceError", "Exception"}

\* _get_cached_voivodeship(query), conflating a stored NULL with no row
GetCachedVoivodeshipConflated(query) ==
    IF query \in DOMAIN pcache /\ pcache[query] # None THEN pcache[query] ELSE NOT_CACHED

\* _get_cached_voivodeship(query)
GetCachedVoivodeship(query) ==
    IF query \in DOMAIN pcache THEN pcache[query] ELSE NOT_CACHED

\* _set_cached_voivodeship(query, voivodeship): the table it leaves
SetCachedVoivodeship(query, voivodeship) == DictSet(pcache, query, voivodeship)

\* the table after an except branch that stores a negative result
AfterGeocoderErrorCached(query) == DictSet(pcache, query, None)

\* the table after the except branches of _query_nominatim: errors are not cached
AfterGeocoderError(query) == pcache

\* the loop of _query_nominatim over the chunks of the address: the first
\* chunk containing the word decides
AddressVoivodeship(address) ==
    LET chunks == SplitOn(address, ",")
        hits   == {i \in 1..Len(chunks) : Contains(chunks[i], Wojewodztwo)}
        c      == chunks[CHOOSE i \in hits : \A j \in hits : i <= j]
        words  == SplitOn(c, " ")
    IN  IF hits = {} THEN [exc |-> "", val |-> None]
        ELSE IF Len(words) < 2 THEN [exc |-> "IndexError", val |-> None]
        ELSE [exc |-> "", val |-> Strip(words[2])]

\* the geocoder was not called
NoAnswer == [kind |-> "no call", address |-> <<>>]

NoEffect(v) ==
    [ret |-> v, pcache |-> pcache, geocoded |-> FALSE, dbread |-> FALSE, dbwrite |-> FALSE]

\* _query_nominatim(town), when geocode answers geo and the cache write
\* fails with a storage fault if wfault
QueryNominatim(town, geo, wfault) ==
    LET cached_result == GetCachedVoivodeship(town)
        parsed == IF geo.kind = "Location" /\ Truthy(geo.address)
                  THEN AddressVoivodeship(geo.address)
                  ELSE [exc |-> "", val |-> None]
        stored == IF Truthy(parsed.val) THEN parsed.val ELSE None
    IN  IF ~use_nominatim THEN NoEffect(None)
        ELSE IF cached_result # NOT_CACHED
        THEN [ret |-> cached_result, pcache |-> pcache,
              geocoded |-> FALSE, dbread |-> TRUE, dbwrite |-> FALSE]
        ELSE IF geo.kind \in GeocoderErrors
        THEN [ret |-> None, pcache |-> AfterGeocoderError(town),
              geocoded |-> TRUE, dbread |-> TRUE, dbwrite |-> FALSE]
        ELSE IF parsed.exc # ""
        THEN [ret |-> None, pcache |-> AfterGeocoderError(town),
              geocoded |-> TRUE, dbread |-> TRUE, dbwrite |-> FALSE]
        ELSE IF wfault
        THEN [ret |-> None, pcache |-> AfterGeocoderError(town),
              geocoded |-> TRUE, dbread |-> TRUE, dbwrite |-> TRUE]
        ELSE [ret |-> stored, pcache |-> SetCachedVoivodeship(town, stored),
              geocoded |-> TRUE, dbread |-> TRUE, dbwrite |-> TRUE]

\* parts = [p.strip() for p in place_str.split(',')]
Parts(place_str) ==
    LET segments == SplitOn(place_str, ",")
    IN  [i \in 1..Len(segments) |-> Strip(segments[i])]

\* the alias-table lookup of parse_voivodeship
AliasLookup(parts) ==
    LET region  == Upper(parts[4])
        entries == {e \in VOIVODESHIP_MAPPING : e[1] = region}
    IN  IF Len(parts) > 3 /\ Truthy(parts[4]) /\ entries # {}
        THEN (CHOOSE e \in entries : TRUE)[2]
        ELSE None

\* the early return of parse_voivodeship, testing for None only
IsEmptyPlaceNoneOnly(place_str) == place_str = None

\* if not place_str
IsEmptyPlace(place_str) == ~Truthy(place_str)

\* the geocoding condition without its first conjunct
ShouldQueryAlways(voivodeship, parts) ==
    use_nominatim /\ Len(parts) > 0 /\ Truthy(parts[1])

\* if not voivodeship and self.use_nominatim and len(parts) > 0 and parts[0]
ShouldQuery(voivodeship, parts) ==
    ~Truthy(voivodeship) /\ use_nominatim /\ Len(parts) > 0 /\ Truthy(parts[1])

\* self._cache[place_str] = voivodeship, done only for a region found
CacheStoreFound(place_str, voivodeship) ==
    IF Truthy(voivodeship) THEN DictSet(cache, place_str, voivodeship) ELSE cache

\* self._cache[place_str] = voivodeship
CacheStore(place_str, voivodeship) == DictSet(cache, place_str, voivodeship)

\* what parse_voivodeship(place_str) returns and the caches it leaves
ParseOutcome(place_str, geo, wfault) ==
    LET parts == Parts(place_str)
        alias == AliasLookup(parts)
        q     == IF ShouldQuery(alias, parts)
                 THEN QueryNominatim(parts[1], geo, wfault)
                 ELSE NoEffect(alias)
    IN  IF IsEmptyPlace(place_str)
        THEN [cache |-> cache] @@ NoEffect(None)
        ELSE IF place_str \in DOMAIN cache
        THEN [cache |-> cache] @@ NoEffect(cache[place_str])
        ELSE [cache |-> CacheStore(place_str, q.ret)] @@ q

\* the town of a place string
Town(place_str) == Parts(place_str)[1]

\* LocationParser.parse_voivodeship(place_str)
parse_voivodeship(place_str, geo, wfault) ==
    \E out \in {ParseOutcome(place_str, geo, wfault)} :
        /\ cache' = out.cache
        /\ pcache' = out.pcache
        /\ place' = place_str
        /\ locret' = out.ret
        /\ geocoded' = out.geocoded
        /\ dbread' = out.dbread
        /\ dbwrite' = out.dbwrite
        /\ first' = IF Truthy(place_str) /\ place_str \notin DOMAIN first
                    THEN DictSet(first, place_str, out.ret)
                    ELSE first
        /\ seen' = (place_str \in DOMAIN first)
        /\ hadfailed' = (Truthy(place_str) /\ Town(place_str) \in failed)
        /\ failed' = IF ~out.geocoded THEN failed
                     ELSE IF geo.kind \in GeocoderErrors
                     THEN failed \cup {Town(place_str)}
                     ELSE failed \ {Town(place_str)}
        /\ location' = IF out.geocoded THEN geo ELSE NoAnswer
        /\ writefault' = (out.dbwrite /\ wfault)
        /\ answered' = IF out.geocoded /\ geo.kind \notin GeocoderErrors /\ ~(out.dbwrite /\ wfault)
                       THEN answered \cup {Town(place_str)}
                       ELSE answered
        /\ UNCHANGED <<use_nominatim, places>>

\* no parse_voivodeship call made yet on this instance
NoCall == <<"<no call>">>

\* LocationParser(use_nominatim): a new instance, as every run makes one
NewInstance(use) ==
    /\ use_nominatim' = use
    /\ cache' = <<>>
    /\ first' = <<>>
    /\ place' = NoCall
    /\ locret' = NoCall
    /\ geocoded' = FALSE
    /\ dbread' = FALSE
    /\ dbwrite' = FALSE
    /\ seen' = FALSE
    /\ hadfailed' = FALSE
    /\ location' = NoAnswer
    /\ writefault' = FALSE
    /\ UNCHANGED <<pcache, places, failed, answered>>

----------------------------------------------------------------------------
(* Inputs *)

GivenChars == {"a", "A", " "}

\* given names: every text over GivenChars up to MaxGivenLen
GivenNames == StringsUpTo(GivenChars, MaxGivenLen)

\* surnames: plain, other case, padded, longer, empty and blank
Surnames == {<<>>, <<"k">>, <<"K">>, <<" ","k">>, <<"k"," ">>, <<"k","k">>, <<" ">>}

SourceNames == {<<"Geneteka">>, <<"PTG PomGenBaza">>}

MkPerson(id, given, sur) == [id |-> id, given_name |-> given, surname |-> sur]

\* persons of the name-matching specification
MatchPersons == {MkPerson(<<"@1@">>, g, s) : g \in GivenNames, s \in Surnames}

\* result rows of the name-matching specification: any name pair, each name
\* a text, None or not present
MatchRows ==
    {MkDict([given_name |-> g, surname |-> s]) :
        g \in GivenNames \cup {None, Absent}, s \in Surnames \cup {None, Absent}}

\* persons of the record-store specification
StorePersons ==
    {MkPerson(<<"@1@">>, <<"a"," ","A">>, <<"k">>),
     MkPerson(<<"@2@">>, <<"A">>, <<"K">>)}

\* person ids asked for: one of a person of the record-store specification,
\* one of nobody
LookupIds == {<<"@1@">>, <<"@9@">>}

\* result rows of the record-store specification: a matching and a
\* non-matching given name; year and parish both a text, both None or both
\* not present; two act numbers
StoreRows ==
    {MkDict([type |-> <<"births">>, given_name |-> g, surname |-> <<"k">>,
             year |-> yp[1], parish |-> yp[2], act |-> a]) :
        g \in {<<"a">>, <<"a","a">>},
        yp \in {<< <<"1","8","8","1">>, <<"p">> >>, << None, None >>, << Absent, Absent >>},
        a \in {<<"1">>, <<"2">>}}

\* place strings: None, empty, a town alone, alias hits (mixed case, padded,
\* with a diacritic, without a town), alias misses (unknown region, region in
\* the third segment, blank region, no town)
PlaceStrings ==
    {None,
     <<>>,
     <<"K","o">>,
     <<"K","o",",",",",",","M","a","z","o","w","i","e","c","k","i","e",",","P","o","l","s","k","a">>,
     <<" ","K","o"," ",","," ",","," ",","," ","m","a","s","o","v","i","a"," ">>,
     <<"W","a",",",",",",","M","a","z","o","v","i","a">>,
     <<",",",",",","L","E","S","S","E","R"," ","P","O","L","A","N","D">>,
     <<",",",",",","X","x">>,
     <<"W","a",",",",","M","A","Z","O","W","I","E","C","K","I","E">>,
     <<"K","o",",",",",","," ">>,
     <<"W","a",",",",",",","M","a","l/","o","p","o","l","s","k","a">>}

\* addresses: the region word after a comma and a space, in the first
\* segment, absent, alone in its segment; and an empty address
Addresses ==
    {<<"K","o",","," ","w","o","j","e","w","o'","d","z","t","w","o"," ","m","a","z","o","w","i","e","c","k","i","e",","," ","P","o","l","s","k","a">>,
     <<"w","o","j","e","w","o'","d","z","t","w","o"," ","m","a","z","o","w","i","e","c","k","i","e",","," ","P","o","l","s","k","a">>,
     <<"B","e","r","l","i","n",","," ","D","e","u","t","s","c","h","l","a","n","d">>,
     <<"K","o",",","w","o","j","e","w","o'","d","z","t","w","o">>,
     <<>>}

GeoOutcomes ==
    {[kind |-> k, address |-> <<>>] : k \in GeocoderErrors \cup {"None"}}
        \cup {[kind |-> "Location", address |-> a] : a \in Addresses}

----------------------------------------------------------------------------
(* genecrawler/models.py *)

\* an Optional[int] that is None
NoYear == -1

\* truth value of an Optional[int]
YearTruthy(y) == y # NoYear /\ y # 0

POLAND == <<"P","O","L","A","N","D">>

POLSKA == <<"P","O","L","S","K","A">>

POL == <<"P","O","L">>

\* Person.has_polish_connection()
has_polish_connection(p) ==
    IF Truthy(p.birth_voivodeship) \/ Truthy(p.death_voivodeship) THEN TRUE
    ELSE IF ~(Truthy(p.birth_place) \/ Truthy(p.death_place)) THEN TRUE
    ELSE \E pl \in {p.birth_place, p.death_place} :
            /\ Truthy(pl)
            /\ \/ Contains(Upper(pl), POLAND)
               \/ Contains(Upper(pl), POLSKA)
               \/ Contains(Upper(pl), POL)

----------------------------------------------------------------------------
(* genecrawler/searchers: the forms the four drivers submit *)

Digits == <<"0","1","2","3","4","5","6","7","8","9">>

\* str(n) of an integer
RECURSIVE Str(_)
Str(n) ==
    IF n < 0 THEN <<"-">> \o Str(0 - n)
    ELSE IF n < 10 THEN <<Digits[n + 1]>>
    ELSE Str(n \div 10) \o <<Digits[(n % 10) + 1]>>

\* GenetekaSearcher.VOIVODESHIP_CODES, as the set of its <<name, code>> pairs
VOIVODESHIP_CODES ==
    {<< <<"d","o","l","n","o","s'","l","a,","s","k","i","e">>, <<"01ds">> >>,
     << <<"k","u","j","a","w","s","k","o","-","p","o","m","o","r","s","k","i","e">>, <<"02kp">> >>,
     << <<"l","u","b","e","l","s","k","i","e">>, <<"03lb">> >>,
     << <<"l","u","b","u","s","k","i","e">>, <<"04ls">> >>,
     << <<"l/","o'","d","z","k","i","e">>, <<"05ld">> >>,
     << <<"m","a","l/","o","p","o","l","s","k","i","e">>, <<"06mp">> >>,
     << <<"m","a","z","o","w","i","e","c","k","i","e">>, <<"07mz">> >>,
     << <<"o","p","o","l","s","k","i","e">>, <<"08op">> >>,
     << <<"p","o","d","k","a","r","p","a","c","k","i","e">>, <<"09pk">> >>,
     << <<"p","o","d","l","a","s","k","i","e">>, <<"10pl">> >>,
     << <<"p","o","m","o","r","s","k","i","e">>, <<"11pm">> >>,
     << <<"s'","l","a,","s","k","i","e">>, <<"12sl">> >>,
     << <<"s'","w","i","e,","t","o","k","r","z","y","s","k","i","e">>, <<"13sk">> >>,
     << <<"w","a","r","m","i","n'","s","k","o","-","m","a","z","u","r","s","k","i","e">>, <<"14wm">> >>,
     << <<"w","i","e","l","k","o","p","o","l","s","k","i","e">>, <<"15wp">> >>,
     << <<"z","a","c","h","o","d","n","i","o","p","o","m","o","r","s","k","i","e">>, <<"16zp">> >>}

\* the fields a page.fill leaves alone are not in the form
FormOf(site, f) == [site |-> site, fields |-> MkDict(f)]

\* search_given_name, taking the whole given name
SearchGivenNameWhole(given_name) ==
    IF Truthy(given_name) THEN [exc |-> "", val |-> given_name]
    ELSE [exc |-> "", val |-> None]

\* search_given_name = extract_first_name(person.given_name) if person.given_name else None
SearchGivenName(given_name) ==
    IF Truthy(given_name) THEN ExtractFirstName(given_name)
    ELSE [exc |-> "", val |-> None]

\* a form field filled only when the value is truthy
Filled(v) == IF Truthy(v) THEN v ELSE Absent

\* the voivodeships a Geneteka search goes through
VoivodeshipsToSearch(p) ==
    LET voivodeship == IF Truthy(p.birth_voivodeship) THEN p.birth_voivodeship
                       ELSE p.death_voivodeship
        known == {vc \in VOIVODESHIP_CODES : vc[1] = voivodeship}
    IN  IF Truthy(voivodeship) /\ known # {} THEN known ELSE VOIVODESHIP_CODES

\* record_types of a Geneteka search, every window five years wide
RecordTypesAllFive(p) ==
    {[bdm |-> "B", type_name |-> <<"births">>, base_year |-> p.birth_year,
      year_before |-> -5, year_after |-> 5],
     [bdm |-> "M", type_name |-> <<"marriages">>,
      base_year |-> IF YearTruthy(p.birth_year) THEN p.birth_year + 25 ELSE NoYear,
      year_before |-> -5, year_after |-> 5],
     [bdm |-> "D", type_name |-> <<"deaths">>, base_year |-> p.death_year,
      year_before |-> -5, year_after |-> 5]}

\* record_types of a Geneteka search
RecordTypes(p) ==
    {[bdm |-> "B", type_name |-> <<"births">>, base_year |-> p.birth_year,
      year_before |-> -5, year_after |-> 5],
     [bdm |-> "M", type_name |-> <<"marriages">>,
      base_year |-> IF YearTruthy(p.birth_year) THEN p.birth_year + 25 ELSE NoYear,
      year_before |-> -10, year_after |-> 10],
     [bdm |-> "D", type_name |-> <<"deaths">>, base_year |-> p.death_year,
      year_before |-> -5, year_after |-> 5]}

\* the form of one Geneteka query
GenetekaForm(p, rt, vc, name) ==
    FormOf("Geneteka",
        [bdm             |-> <<rt.bdm>>,
         w               |-> vc[2],
         search_lastname |-> Filled(p.surname),
         search_name     |-> Filled(name),
         from_date       |-> IF YearTruthy(rt.base_year)
                             THEN Str(rt.base_year + rt.year_before) ELSE Absent,
         to_date         |-> IF YearTruthy(rt.base_year)
                             THEN Str(rt.base_year + rt.year_after) ELSE Absent])

\* GenetekaSearcher.search: the forms submitted, when the queries of the
\* record types in failing raise before the form is submitted (each query
\* has its own try block, so the others go on)
GenetekaForms(p, failing) ==
    LET name == SearchGivenName(p.given_name)
    IN  IF name.exc # "" THEN {}
        ELSE {GenetekaForm(p, rt, vc, name.val) :
                rt \in {t \in RecordTypes(p) : t.bdm \notin failing},
                vc \in VoivodeshipsToSearch(p)}

\* PTGSearcher.search: the form submitted (none when the driver raises)
PTGForms(p, fails) ==
    LET name == SearchGivenName(p.given_name)
    IN  IF fails \/ name.exc # "" THEN {}
        ELSE {FormOf("PTG PomGenBaza",
                [mim |-> Filled(name.val),
                 mnz |-> Filled(p.surname),
                 ode |-> IF YearTruthy(p.birth_year) THEN Str(p.birth_year - 5) ELSE Absent,
                 doe |-> IF YearTruthy(p.birth_year) THEN Str(p.birth_year + 5) ELSE Absent])}

\* PoznanProjectSearcher.search: the form submitted
PoznanForms(p, fails) ==
    LET name == SearchGivenName(p.given_name)
        marriage_year == p.birth_year + 25
    IN  IF fails \/ name.exc # "" THEN {}
        ELSE {FormOf("Poznan Project",
                [surname    |-> Filled(p.surname),
                 firstname1 |-> Filled(name.val),
                 yearfrom   |-> IF YearTruthy(p.birth_year) THEN Str(marriage_year - 10) ELSE Absent,
                 yearto     |-> IF YearTruthy(p.birth_year) THEN Str(marriage_year + 10) ELSE Absent])}

\* BaSIASearcher.search: the form submitted
BaSIAForms(p, fails) ==
    LET name == SearchGivenName(p.given_name)
    IN  IF fails \/ name.exc # "" THEN {}
        ELSE {FormOf("BaSIA",
                [firstname |-> Filled(name.val),
                 lastname  |-> Filled(p.surname),
                 yearfrom  |-> IF YearTruthy(p.birth_year) THEN Str(p.birth_year - 5) ELSE Absent,
                 yearto    |-> IF YearTruthy(p.birth_year) THEN Str(p.birth_year + 5) ELSE Absent])}

\* the record types whose Geneteka queries fail: none, the births, all
FailPatterns == {{}, {"B"}, {"B", "M", "D"}}

\* names as the adapter hands them over (stripped, not both empty): one
\* given name, two, two with two spaces between, none; a surname in two
\* words, none
QueryNames ==
    {<< <<"a">>, <<"k">> >>,
     << <<"a"," ","A">>, <<"K"," ","k">> >>,
     << <<>>, <<"k">> >>,
     << <<"A"," "," ","a">>, <<>> >>}

\* years as _extract_year returns them: None or a year from 1000 to 2099,
\* the birth year at most 1978
BirthYears == {NoYear, 1000, 1978}

DeathYears == {NoYear, 1900}

\* regions as parse_voivodeship returns them through the geocoder
GeocodedRegions ==
    {AddressVoivodeship(a).val : a \in {b \in Addresses : Truthy(b)}} \ {None, <<>>}

\* place and region of birth: none; a place without a region, abroad or in
\* Poland; a place with a region from the alias table or from the geocoder
BirthLocations ==
    {<<None, None>>,
     <<<<"B","e","r","l","i","n",","," ","G","e","r","m","a","n","y">>, None>>,
     <<<<"M","i","n","n","e","a","p","o","l","i","s",","," ","U","S","A">>, None>>,
     <<<<"K","o",","," ","P","o","l","s","k","a">>, None>>,
     <<<<"k","o",","," ","p","o","l","a","n","d">>, None>>,
     <<<<"K","o">>, <<"m","a","l/","o","p","o","l","s","k","i","e">>>>}
        \cup {<<<<"K","o">>, r>> : r \in GeocodedRegions}

DeathLocations ==
    {<<None, None>>,
     <<<<"B","e","r","l","i","n",","," ","G","e","r","m","a","n","y">>, None>>,
     <<<<"W","a">>, <<"l","u","b","e","l","s","k","i","e">>>>}

MkFullPerson(id, names, by, dy, b, d) ==
    [id |-> id, given_name |-> names[1], surname |-> names[2],
     birth_year |-> by, death_year |-> dy,
     birth_place |-> b[1], death_place |-> d[1],
     birth_voivodeship |-> b[2], death_voivodeship |-> d[2]]

\* persons of the query specification
QueryPersons ==
    {MkFullPerson(<<"@1@">>, n, by, dy, b, d) :
        n \in QueryNames, by \in BirthYears, dy \in DeathYears,
        b \in BirthLocations, d \in DeathLocations}

\* persons of the run specification: in Poland by region, abroad, without
\* any location and given name
RunPersons ==
    {MkFullPerson(<<"@1@">>, << <<"a"," ","A">>, <<"k">> >>, 1880, 1900,
                  <<<<"K","o">>, <<"m","a","z","o","w","i","e","c","k","i","e">>>>, <<None, None>>),
     MkFullPerson(<<"@2@">>, << <<"a">>, <<"k">> >>, 1978, NoYear,
                  <<<<"B","e","r","l","i","n",","," ","G","e","r","m","a","n","y">>, None>>, <<None, None>>),
     MkFullPerson(<<"@3@">>, << <<>>, <<"k">> >>, NoYear, NoYear,
                  <<None, None>>, <<None, None>>)}

----------------------------------------------------------------------------
(* genecrawler/cli.py: the loop of main over the persons *)

AllDatabases == {"geneteka", "ptg", "poznan", "basia"}

\* SearchResult.source of each driver
SourceOf(d) ==
    CASE d = "geneteka" -> <<"Geneteka">>
      [] d = "ptg"      -> <<"PTG PomGenBaza">>
      [] d = "poznan"   -> <<"Poznan Project">>
      [] d = "basia"    -> <<"BaSIA">>

\* the loop body with the BaSIA block before the Poznan Project block
AfterBasiaFirst(d) ==
    CASE d = "geneteka" -> "ptg"
      [] d = "ptg"      -> "basia"
      [] d = "basia"    -> "poznan"
      [] d = "poznan"   -> "sleep"

\* the statement after the block of driver d in the loop body
After(d) ==
    CASE d = "geneteka" -> "ptg"
      [] d = "ptg"      -> "poznan"
      [] d = "poznan"   -> "basia"
      [] d = "basia"    -> "sleep"

\* a row of Geneteka's birth table, as the driver builds it
BirthRow(p, vc, given) ==
    MkDict([type |-> <<"births">>, voivodeship |-> vc[1], year |-> <<"1","8","8","1">>,
            act |-> <<"1">>, given_name |-> given, surname |-> p.surname,
            father_given_name |-> <<>>, mother_given_name |-> <<>>,
            mother_surname |-> <<>>, parish |-> <<"p">>, locality |-> <<>>,
            link |-> None])

\* a row of Geneteka's marriage or death table, as the driver builds it
GenericRow(type_name, vc) ==
    MkDict([type |-> type_name, voivodeship |-> vc[1], data |-> <<"1881, 1, a, k, b">>])

\* result.details of a Geneteka search: nothing, a birth row naming the
\* person by their first name, one naming somebody else, a marriage row
GenetekaDetails(p, failing) ==
    LET vc   == CHOOSE v \in VoivodeshipsToSearch(p) : TRUE
        name == SearchGivenName(p.given_name)
    IN  {<<>>}
        \cup (IF "B" \in failing \/ name.exc # "" THEN {}
              ELSE {<<BirthRow(p, vc, IF Truthy(name.val) THEN name.val ELSE <<>>)>>,
                    <<BirthRow(p, vc, <<"x">>)>>})
        \cup (IF "M" \in failing \/ name.exc # "" THEN {}
              ELSE {<<GenericRow(<<"marriages">>, vc)>>})

\* a row of one of the other drivers, in the driver's format
OtherRow(d, p) ==
    LET whole == p.given_name \o <<" ">> \o p.surname
    IN  CASE d = "ptg"    -> MkDict([name |-> whole, year |-> <<"1881">>, parish |-> <<"p">>])
          [] d = "poznan" -> MkDict([groom |-> whole, bride |-> <<"x">>,
                                     year |-> <<"1881">>, parish |-> <<"p">>])
          [] d = "basia"  -> MkDict([name |-> whole, year |-> <<"1881">>,
                                     place |-> <<"p">>, document_type |-> <<"birth">>])

\* result.details of the other drivers: nothing, or one row
OtherDetails(d, p, fails) ==
    IF fails THEN {<<>>} ELSE {<<>>, <<OtherRow(d, p)>>}

\* a driver whose search raised stops the run
AfterSearchAborting(d, fails) == IF fails THEN "aborted" ELSE After(d)

\* where main goes on after driver d returned: every driver catches what its
\* search raises and returns a SearchResult, so main goes on to the next block
AfterSearch(d, fails) == After(d)

\* one driver was run for the current person: the forms it submitted and
\* the rows it returned are kept for process_matches
Searched(d, fs, rows, fails) ==
    /\ forms' = fs
    /\ driver' = d
    /\ details' = rows
    /\ invoked' = invoked \cup {<<cur, d>>}
    /\ trace' = Append(trace, [person |-> cur, driver |-> d])
    /\ nfailed' = IF fails THEN nfailed + 1 ELSE nfailed
    /\ pc' = AfterSearch(d, fails)
    /\ UNCHANGED <<persons, cur, databases>>

\* the Geneteka block runs the driver for every person
GenetekaGateOpen(p) == TRUE

\* if person.has_polish_connection():
GenetekaGate(p) == has_polish_connection(p)

\* main: the Geneteka block, for a person that passes the gate
MainGeneteka ==
    /\ cur <= Len(persons) /\ pc = "geneteka" /\ details = <<>>
    /\ "geneteka" \in databases
    /\ GenetekaGate(persons[cur])
    /\ polish' = IF has_polish_connection(persons[cur]) THEN "True" ELSE "False"
    /\ \E failing \in FailPatterns :
         \E rows \in GenetekaDetails(persons[cur], failing) :
            Searched("geneteka", GenetekaForms(persons[cur], failing), rows, failing # {})
    /\ UNCHANGED dbvars
    /\ UNCHANGED locvars
    /\ UNCHANGED pagevars
    /\ UNCHANGED tuivars

\* main: the Geneteka block, for a person that does not pass the gate
MainGenetekaSkipped ==
    /\ cur <= Len(persons) /\ pc = "geneteka" /\ details = <<>>
    /\ "geneteka" \in databases
    /\ ~GenetekaGate(persons[cur])
    /\ polish' = IF has_polish_connection(persons[cur]) THEN "True" ELSE "False"
    /\ pc' = After("geneteka")
    /\ UNCHANGED <<persons, cur, databases, forms, driver, details, invoked, trace, nfailed>>
    /\ UNCHANGED dbvars
    /\ UNCHANGED locvars
    /\ UNCHANGED pagevars
    /\ UNCHANGED tuivars

\* main: the block of a driver that was not selected
MainNotSelected ==
    /\ cur <= Len(persons) /\ pc \in AllDatabases /\ details = <<>>
    /\ pc \notin databases
    /\ pc' = After(pc)
    /\ UNCHANGED <<persons, cur, databases, forms, driver, details, invoked, polish, trace, nfailed>>
    /\ UNCHANGED dbvars
    /\ UNCHANGED locvars
    /\ UNCHANGED pagevars
    /\ UNCHANGED tuivars

\* main: the PTG block
MainPTG ==
    /\ cur <= Len(persons) /\ pc = "ptg" /\ details = <<>>
    /\ "ptg" \in databases
    /\ \E fails \in BOOLEAN :
         \E rows \in OtherDetails("ptg", persons[cur], fails) :
            Searched("ptg", PTGForms(persons[cur], fails), rows, fails)
    /\ UNCHANGED polish
    /\ UNCHANGED dbvars
    /\ UNCHANGED locvars
    /\ UNCHANGED pagevars
    /\ UNCHANGED tuivars

\* main: the Poznan Project block
MainPoznan ==
    /\ cur <= Len(persons) /\ pc = "poznan" /\ details = <<>>
    /\ "poznan" \in databases
    /\ \E fails \in BOOLEAN :
         \E rows \in OtherDetails("poznan", persons[cur], fails) :
            Searched("poznan", PoznanForms(persons[cur], fails), rows, fails)
    /\ UNCHANGED polish
    /\ UNCHANGED dbvars
    /\ UNCHANGED locvars
    /\ UNCHANGED pagevars
    /\ UNCHANGED tuivars

\* main: the BaSIA block
MainBaSIA ==
    /\ cur <= Len(persons) /\ pc = "basia" /\ details = <<>>
    /\ "basia" \in databases
    /\ \E fails \in BOOLEAN :
         \E rows \in OtherDetails("basia", persons[cur], fails) :
            Searched("basia", BaSIAForms(persons[cur], fails), rows, fails)
    /\ UNCHANGED polish
    /\ UNCHANGED dbvars
    /\ UNCHANGED locvars
    /\ UNCHANGED pagevars
    /\ UNCHANGED tuivars

\* process_matches: one turn of its loop over result.details
process_matches ==
    /\ details # <<>>
    /\ upsert_match(persons[cur], Head(details), SourceOf(driver))
    /\ details' = Tail(details)
    /\ UNCHANGED <<persons, cur, pc, databases, forms, driver, invoked, polish, trace, nfailed>>
    /\ UNCHANGED locvars
    /\ UNCHANGED pagevars
    /\ UNCHANGED tuivars

\* main: time.sleep(2), then the next person
MainSleep ==
    /\ cur <= Len(persons) /\ pc = "sleep" /\ details = <<>>
    /\ cur' = cur + 1
    /\ pc' = "geneteka"
    /\ UNCHANGED <<persons, databases, forms, driver, details, invoked, polish, trace, nfailed>>
    /\ UNCHANGED dbvars
    /\ UNCHANGED locvars
    /\ UNCHANGED pagevars
    /\ UNCHANGED tuivars

----------------------------------------------------------------------------
(* genecrawler/searchers/geneteka.py: the paging loop of one query *)

\* the values of max_pages: None, or an integer, which is what type=int of
\* --max-pages accepts
MaxPagesValues == {<<>>} \cup {<<n>> : n \in (0 - 1)..MaxPagesArg}

\* if self.max_pages and page_num >= self.max_pages:
ReachedMaxPages(mp, pn) == mp # <<>> /\ mp[1] # 0 /\ pn >= mp[1]

\* the form of one record type and one region is submitted: the site answers
\* with n result pages, or the navigation raises and the query is given up
Submit(n, raises) ==
    /\ ploop \in {"idle", "done"}
    /\ npages' = n
    /\ page_num' = 1
    /\ nparsed' = 0
    /\ ploop' = IF raises THEN "done" ELSE "paging"
    /\ ended' = IF raises THEN "error" ELSE "none"
    /\ UNCHANGED max_pages

\* one turn of `while True`: the page is parsed unless it has no result
\* table; the loop ends at the max_pages limit, when the click on Next
\* raises, or when there is no enabled Next button
PageTurn(raises) ==
    /\ ploop = "paging"
    /\ IF page_num > npages
       THEN /\ ploop' = "done" /\ ended' = "no table"
            /\ UNCHANGED <<page_num, nparsed>>
       ELSE /\ nparsed' = nparsed + 1
            /\ IF ReachedMaxPages(max_pages, page_num)
               THEN /\ ploop' = "done" /\ ended' = "limit"
                    /\ UNCHANGED page_num
               ELSE IF raises
               THEN /\ ploop' = "done" /\ ended' = "error"
                    /\ UNCHANGED page_num
               ELSE IF page_num < npages
               THEN /\ page_num' = page_num + 1
                    /\ UNCHANGED <<ploop, ended>>
               ELSE /\ ploop' = "done" /\ ended' = "no next"
                    /\ UNCHANGED page_num
    /\ UNCHANGED <<max_pages, npages>>

----------------------------------------------------------------------------
(* genecrawler_tui.py: the record browser *)

\* max(a, b)
Max(a, b) == IF a >= b THEN a ELSE b

\* min(a, b)
Min(a, b) == IF a <= b THEN a ELSE b

\* the fields filter_records joins into the text it searches, in its order
SearchFields ==
    <<"person_id", "person_given_name", "person_surname", "record_type", "source",
      "voivodeship", "year", "result_given_name", "result_surname", "father_given_name",
      "mother_given_name", "mother_surname", "parish", "locality">>

\* " ".join(texts)
RECURSIVE Join(_)
Join(texts) ==
    IF texts = <<>> THEN <<>>
    ELSE IF Len(texts) = 1 THEN texts[1]
    ELSE texts[1] \o <<" ">> \o Join(Tail(texts))

\* str(record.get(field, ''))
FieldText(record, field) ==
    IF field \notin DOMAIN record THEN <<>>
    ELSE IF record[field] = None THEN <<"N","o","n","e">>
    ELSE record[field]

\* searchable_text of filter_records
SearchableText(record) ==
    Lower(Join([i \in 1..Len(SearchFields) |-> FieldText(record, SearchFields[i])]))

\* the loop of filter_records over self.records
RECURSIVE Matching(_, _)
Matching(recs, query_lower) ==
    IF recs = <<>> THEN <<>>
    ELSE (IF Contains(SearchableText(Head(recs)), query_lower) THEN <<Head(recs)>> ELSE <<>>)
         \o Matching(Tail(recs), query_lower)

\* filter_records(query): the filtered_records, current_row and scroll_offset
\* it leaves (an empty query returns before the positions are reset)
FilterRecords(query) ==
    IF query = <<>>
    THEN [filtered |-> records, row |-> current_row, offset |-> scroll_offset]
    ELSE [filtered |-> Matching(records, Lower(query)), row |-> 0, offset |-> 0]

\* the navigation keys
NavKeys == {"KEY_UP", "KEY_DOWN", "KEY_PPAGE", "KEY_NPAGE", "KEY_HOME", "KEY_END"}

\* the printable characters typed
TuiChars == {"q", "Q", "9", "/"}

\* the keys pressed: navigation, Enter, ESC, Backspace, characters, and a
\* key the browser has no use for
Keys == NavKeys \cup {"ENTER", "ESC", "BACKSPACE", "KEY_LEFT"} \cup TuiChars

\* Page Down moving the window by a page without looking at the list's end
PageDownOffsetUnclamped(n, available_rows) == scroll_offset + available_rows

\* scroll_offset after Page Down
PageDownOffset(n, available_rows) ==
    Max(0, Min(n - available_rows, scroll_offset + available_rows))

\* handle_input, with a record's details shown
KeyInDetails(key) ==
    /\ details_mode' = IF key = "ENTER" THEN FALSE ELSE details_mode
    /\ running' = (key \notin {"q", "Q"})
    /\ UNCHANGED <<filtered_records, current_row, scroll_offset, search_mode, search_query>>

\* the query is replaced and the list filtered by it
Refilter(query) ==
    \E f \in {FilterRecords(query)} :
        /\ search_query' = query
        /\ filtered_records' = f.filtered
        /\ current_row' = f.row
        /\ scroll_offset' = f.offset

\* handle_input, with the search bar open
KeyInSearch(key) ==
    /\ CASE key = "ESC" ->
                /\ search_mode' = FALSE
                /\ Refilter(<<>>)
         [] key = "ENTER" ->
                /\ search_mode' = FALSE
                /\ UNCHANGED <<filtered_records, current_row, scroll_offset, search_query>>
         [] key = "BACKSPACE" ->
                /\ Refilter(SubSeq(search_query, 1, Len(search_query) - 1))
                /\ UNCHANGED search_mode
         [] key \in TuiChars ->
                /\ Len(search_query) < MaxQueryLen
                /\ Refilter(Append(search_query, key))
                /\ UNCHANGED search_mode
         [] OTHER ->
                UNCHANGED <<filtered_records, current_row, scroll_offset, search_mode, search_query>>
    /\ UNCHANGED <<details_mode, running>>

\* handle_input, in the list
KeyInList(key) ==
    LET available_rows == height - 4
        n == Len(filtered_records)
    IN  /\ running' = (key \notin {"q", "Q"})
        /\ search_mode' = IF key = "/" THEN TRUE ELSE search_mode
        /\ search_query' = IF key = "/" THEN <<>> ELSE search_query
        /\ details_mode' = IF key = "ENTER" /\ n > 0 THEN TRUE ELSE details_mode
        /\ CASE key = "KEY_UP" ->
                    IF current_row > 0
                    THEN /\ current_row' = current_row - 1
                         /\ scroll_offset' = IF current_row - 1 < scroll_offset
                                             THEN scroll_offset - 1 ELSE scroll_offset
                    ELSE UNCHANGED <<current_row, scroll_offset>>
             [] key = "KEY_DOWN" ->
                    IF current_row < n - 1
                    THEN /\ current_row' = current_row + 1
                         /\ scroll_offset' = IF current_row + 1 >= scroll_offset + available_rows
                                             THEN scroll_offset + 1 ELSE scroll_offset
                    ELSE UNCHANGED <<current_row, scroll_offset>>
             [] key = "KEY_PPAGE" ->
                    /\ current_row' = Max(0, current_row - available_rows)
                    /\ scroll_offset' = Max(0, scroll_offset - available_rows)
             [] key = "KEY_NPAGE" ->
                    /\ current_row' = Min(n - 1, current_row + available_rows)
                    /\ scroll_offset' = PageDownOffset(n, available_rows)
             [] key = "KEY_HOME" ->
                    /\ current_row' = 0
                    /\ scroll_offset' = 0
             [] key = "KEY_END" ->
                    /\ current_row' = n - 1
                    /\ scroll_offset' = Max(0, n - available_rows)
             [] OTHER -> UNCHANGED <<current_row, scroll_offset>>
        /\ UNCHANGED filtered_records

\* one turn of the loop of run in which a key was pressed: handle_input(key, height)
handle_input(key) ==
    /\ running
    /\ IF details_mode THEN KeyInDetails(key)
       ELSE IF search_mode THEN KeyInSearch(key)
       ELSE KeyInList(key)
    /\ navonly' = (navonly /\ key \in NavKeys)
    /\ UNCHANGED <<records, height>>

\* a row of matched_records as load_records reads it
MkRecord(id, given, surname, year) ==
    [person_id |-> id, person_given_name |-> given, person_surname |-> surname,
     record_type |-> <<"b","i","r","t","h","s">>,
     source |-> <<"G","e","n","e","t","e","k","a">>,
     voivodeship |-> <<>>, year |-> year, act |-> <<"1">>,
     result_given_name |-> given, result_surname |-> surname,
     father_given_name |-> <<>>, mother_given_name |-> <<>>, mother_surname |-> <<>>,
     parish |-> <<"p">>, locality |-> <<>>, link |-> None]

\* rows of matched_records in the order of load_records' ORDER BY
\* person_surname, person_given_name, year
StoredRecords ==
    <<MkRecord(<<"@","1","@">>, <<"A">>, <<"K","a">>, <<"1","8","8","1">>),
      MkRecord(<<"@","2","@">>, <<"A">>, <<"K","q">>, <<"1","8","8","1">>),
      MkRecord(<<"@","3","@">>, <<"A">>, <<"K","q">>, <<"1","8","9","0">>),
      MkRecord(<<"@","4","@">>, <<"B">>, <<"L","a">>, <<"1","8","9","0">>)>>

\* the rows at the indices in I, in order
RECURSIVE Picked(_, _)
Picked(I, from) ==
    IF from > Len(StoredRecords) THEN <<>>
    ELSE (IF from \in I THEN <<StoredRecords[from]>> ELSE <<>>) \o Picked(I, from + 1)

\* the lists load_records can read: the table is not empty (run returns
\* before its loop when it is) and holds at most MaxRecords rows
RecordLists ==
    {Picked(I, 1) : I \in {J \in SUBSET (1..Len(StoredRecords)) :
                              Cardinality(J) >= 1 /\ Cardinality(J) <= MaxRecords}}

\* terminal heights: room for no record row up to MaxRows of them
TuiHeights == {4 + r : r \in 0..MaxRows}

----------------------------------------------------------------------------
(* Specifications *)

\* the loop of main before any run
InitRunIdle ==
    /\ persons = <<>>
    /\ cur = 1
    /\ pc = "geneteka"
    /\ databases = {}
    /\ forms = {}
    /\ driver = "none"
    /\ details = <<>>
    /\ invoked = {}
    /\ polish = "none"
    /\ trace = <<>>
    /\ nfailed = 0

\* the resolver before any run: nothing cached, no call made
InitLocIdle ==
    /\ use_nominatim = FALSE
    /\ cache = <<>>
    /\ pcache = <<>>
    /\ places = {}
    /\ place = NoCall
    /\ locret = NoCall
    /\ geocoded = FALSE
    /\ dbread = FALSE
    /\ dbwrite = FALSE
    /\ first = <<>>
    /\ seen = FALSE
    /\ failed = {}
    /\ hadfailed = FALSE
    /\ location = NoAnswer
    /\ writefault = FALSE
    /\ answered = {}

\* the store before any call
InitStoreIdle ==
    /\ table = {}
    /\ nextId = 1
    /\ clock = 0
    /\ person = MkPerson(<<"@1@">>, <<>>, <<>>)
    /\ result = MkDict([given_name |-> Absent])
    /\ source = <<"Geneteka">>
    /\ ret = "none"
    /\ calls = 0
    /\ retrieved = {}
    /\ lookup = NoLookup
    /\ lookupret = "none"

\* the Geneteka driver before any query
InitPagesIdle ==
    /\ max_pages = <<>>
    /\ npages = 0
    /\ page_num = 1
    /\ nparsed = 0
    /\ ploop = "idle"
    /\ ended = "none"

\* the record browser as MatchedRecordsBrowser.__init__ leaves it
InitTuiIdle ==
    /\ records = <<>>
    /\ filtered_records = <<>>
    /\ current_row = 0
    /\ scroll_offset = 0
    /\ search_mode = FALSE
    /\ details_mode = FALSE
    /\ search_query = <<>>
    /\ height = 0
    /\ running = FALSE
    /\ navonly = TRUE

\* name matching: one upsert_match call, on an empty table, with any names
InitMatch ==
    /\ table = {}
    /\ nextId = 1
    /\ clock = 0
    /\ person \in MatchPersons
    /\ result \in MatchRows
    /\ source = <<"Geneteka">>
    /\ ret = "none"
    /\ calls = 0
    /\ retrieved = {}
    /\ lookup = NoLookup
    /\ lookupret = "none"
    /\ InitLocIdle
    /\ InitRunIdle
    /\ InitPagesIdle
    /\ InitTuiIdle

MatchCall ==
    /\ calls = 0
    /\ upsert_match(person, result, source)
    /\ UNCHANGED locvars
    /\ UNCHANGED runvars
    /\ UNCHANGED pagevars
    /\ UNCHANGED tuivars

NextMatch == MatchCall

SpecMatch == InitMatch /\ [][NextMatch]_vars

\* record store: a sequence of upsert_match calls while time passes
InitStore == InitStoreIdle /\ InitLocIdle /\ InitRunIdle /\ InitPagesIdle /\ InitTuiIdle

StoreCall ==
    /\ calls < MaxCalls
    /\ \E p \in StorePersons, r \in StoreRows, s \in SourceNames : upsert_match(p, r, s)
    /\ UNCHANGED locvars
    /\ UNCHANGED runvars
    /\ UNCHANGED pagevars
    /\ UNCHANGED tuivars

StoreTick == Tick /\ UNCHANGED locvars /\ UNCHANGED runvars /\ UNCHANGED pagevars /\ UNCHANGED tuivars

\* a caller asks whether a person has matched records
StoreLookup ==
    /\ \E id \in LookupIds : has_matched_records(id)
    /\ UNCHANGED locvars
    /\ UNCHANGED runvars
    /\ UNCHANGED pagevars
    /\ UNCHANGED tuivars

NextStore == StoreCall \/ StoreTick \/ StoreLookup

SpecStore == InitStore /\ [][NextStore]_vars

\* region resolution: runs of a resolver over the place strings of the
\* persons read, against a geocoder that answers or fails as it likes
InitLoc ==
    /\ InitStoreIdle
    /\ InitRunIdle
    /\ use_nominatim \in BOOLEAN
    /\ cache = <<>>
    /\ pcache = <<>>
    /\ places \in {P \in SUBSET PlaceStrings : Cardinality(P) >= 1 /\ Cardinality(P) <= MaxPlaces}
    /\ place = NoCall
    /\ locret = NoCall
    /\ geocoded = FALSE
    /\ dbread = FALSE
    /\ dbwrite = FALSE
    /\ first = <<>>
    /\ seen = FALSE
    /\ failed = {}
    /\ hadfailed = FALSE
    /\ location = NoAnswer
    /\ writefault = FALSE
    /\ answered = {}
    /\ InitPagesIdle
    /\ InitTuiIdle

ParseCall ==
    /\ \E pl \in places, geo \in GeoOutcomes, wfault \in BOOLEAN :
            parse_voivodeship(pl, geo, wfault)
    /\ UNCHANGED dbvars
    /\ UNCHANGED runvars
    /\ UNCHANGED pagevars
    /\ UNCHANGED tuivars

NewRun ==
    /\ \E use \in BOOLEAN : NewInstance(use)
    /\ UNCHANGED dbvars
    /\ UNCHANGED runvars
    /\ UNCHANGED pagevars
    /\ UNCHANGED tuivars

NextLoc == ParseCall \/ NewRun

SpecLoc == InitLoc /\ [][NextLoc]_vars

\* queries: all four drivers run for one person, of any name, years and location
InitQuery ==
    /\ InitStoreIdle
    /\ InitLocIdle
    /\ persons \in {<<p>> : p \in QueryPersons}
    /\ cur = 1
    /\ pc = "geneteka"
    /\ databases = AllDatabases
    /\ forms = {}
    /\ driver = "none"
    /\ details = <<>>
    /\ invoked = {}
    /\ polish = "none"
    /\ trace = <<>>
    /\ nfailed = 0
    /\ InitPagesIdle
    /\ InitTuiIdle

NextQuery ==
    \/ MainGeneteka
    \/ MainGenetekaSkipped
    \/ MainPTG
    \/ MainPoznan
    \/ MainBaSIA
    \/ process_matches
    \/ MainSleep

SpecQuery == InitQuery /\ [][NextQuery]_vars

\* runs: the loop of main over a list of persons, in any order (--random),
\* with any selection of drivers (--databases)
InitRun ==
    /\ InitStoreIdle
    /\ InitLocIdle
    /\ persons \in {s \in UNION {[1..n -> RunPersons] : n \in 1..MaxPersons} :
                        \A i \in DOMAIN s : \A j \in DOMAIN s : s[i] = s[j] => i = j}
    /\ cur = 1
    /\ pc = "geneteka"
    /\ databases \in (SUBSET AllDatabases) \ {{}}
    /\ forms = {}
    /\ driver = "none"
    /\ details = <<>>
    /\ invoked = {}
    /\ polish = "none"
    /\ trace = <<>>
    /\ nfailed = 0
    /\ InitPagesIdle
    /\ InitTuiIdle

NextRun ==
    \/ MainGeneteka
    \/ MainGenetekaSkipped
    \/ MainNotSelected
    \/ MainPTG
    \/ MainPoznan
    \/ MainBaSIA
    \/ process_matches
    \/ MainSleep

SpecRun == InitRun /\ [][NextRun]_vars

\* runs that go on: main is one sequential process, and every statement of
\* its loop body returns (each wait on a page has a timeout)
SpecRunFair == SpecRun /\ WF_vars(NextRun)

\* paging: queries of a Geneteka driver built with any max_pages, against a
\* site that answers each query with any number of result pages
InitPages ==
    /\ InitStoreIdle
    /\ InitLocIdle
    /\ InitRunIdle
    /\ InitTuiIdle
    /\ max_pages \in MaxPagesValues
    /\ npages = 0
    /\ page_num = 1
    /\ nparsed = 0
    /\ ploop = "idle"
    /\ ended = "none"

PagesSubmit ==
    /\ \E n \in 0..MaxSitePages, raises \in BOOLEAN : Submit(n, raises)
    /\ UNCHANGED dbvars
    /\ UNCHANGED locvars
    /\ UNCHANGED runvars
    /\ UNCHANGED tuivars

PagesTurn ==
    /\ \E raises \in BOOLEAN : PageTurn(raises)
    /\ UNCHANGED dbvars
    /\ UNCHANGED locvars
    /\ UNCHANGED runvars
    /\ UNCHANGED tuivars

NextPages == PagesSubmit \/ PagesTurn

SpecPages == InitPages /\ [][NextPages]_vars

\* the record browser: any keys pressed on any list of records read, in a
\* terminal of any height left alone during the session
InitTui ==
    /\ InitStoreIdle
    /\ InitLocIdle
    /\ InitRunIdle
    /\ InitPagesIdle
    /\ records \in RecordLists
    /\ filtered_records = records
    /\ current_row = 0
    /\ scroll_offset = 0
    /\ search_mode = FALSE
    /\ details_mode = FALSE
    /\ search_query = <<>>
    /\ height \in TuiHeights
    /\ running = TRUE
    /\ navonly = TRUE

TuiKey ==
    /\ \E key \in Keys : handle_input(key)
    /\ UNCHANGED dbvars
    /\ UNCHANGED locvars
    /\ UNCHANGED runvars
    /\ UNCHANGED pagevars

NextTui == TuiKey

SpecTui == InitTui /\ [][NextTui]_vars

----------------------------------------------------------------------------
(* Vocabulary of the properties, defined apart from the operators above *)

\* the text has a character that is not a space
HasToken(s) == \E i \in 1..Len(s) : s[i] # " "

\* the first maximal run of non-space characters of a text that has one
FirstToken(s) ==
    LET start == CHOOSE i \in 1..Len(s) : s[i] # " " /\ \A j \in 1..(i - 1) : s[j] = " "
        stop  == CHOOSE i \in start..Len(s) :
                    /\ \A j \in start..i : s[j] # " "
                    /\ (i = Len(s) \/ s[i + 1] = " ")
    IN  SubSeq(s, start, stop)

\* the text without its leading and trailing spaces
Trimmed(s) ==
    IF ~HasToken(s) THEN <<>>
    ELSE SubSeq(s, CHOOSE i \in 1..Len(s) : s[i] # " " /\ \A j \in 1..(i - 1) : s[j] = " ",
                   CHOOSE i \in 1..Len(s) : s[i] # " " /\ \A j \in (i + 1)..Len(s) : s[j] = " ")

\* equal up to the case of the letters
SameIgnoringCase(a, b) ==
    Len(a) = Len(b) /\ \A i \in 1..Len(a) : UpperCh(a[i]) = UpperCh(b[i])

\* the row carries a given name and a surname: both present, neither None nor empty
RowHasNames(r) ==
    /\ "given_name" \in DOMAIN r /\ r["given_name"] # None /\ r["given_name"] # <<>>
    /\ "surname" \in DOMAIN r /\ r["surname"] # None /\ r["surname"] # <<>>

\* the match rule: same first given-name token and same trimmed surname,
\* ignoring case (a name without a token has no first token to agree on)
NamesAgree(p, r) ==
    /\ HasToken(p.given_name) /\ HasToken(r["given_name"])
    /\ SameIgnoringCase(FirstToken(p.given_name), FirstToken(r["given_name"]))
    /\ SameIgnoringCase(Trimmed(p.surname), Trimmed(r["surname"]))

\* the uniqueness tuple of a stored row
KeyOf(t) ==
    <<t.person_id, t.source, t.record_type, t.year, t.parish,
      t.result_given_name, t.result_surname>>

\* the uniqueness tuple upsert_match(p, r, s) writes under (a field that is
\* not present is stored as the empty text)
CallKey(p, r, s) ==
    <<p.id, s, Get(r, "type", <<>>), Get(r, "year", <<>>), Get(r, "parish", <<>>),
      Get(r, "given_name", <<>>), Get(r, "surname", <<>>)>>

----------------------------------------------------------------------------
(* Properties of upsert_match and extract_first_name *)

\* C1: upsert_match returns false and leaves matched_records unchanged when
\* the row lacks a non-empty given name or surname or the names do not match
\* the person; in every other case it returns true and the table holds a row
\* for the row's uniqueness key.
C1_UpsertContract ==
    [][calls' = calls + 1 =>
        IF ~RowHasNames(result') \/ ~NamesAgree(person', result')
        THEN ret' = "False" /\ table' = table
        ELSE /\ ret' = "True"
             /\ \E t \in table' : KeyOf(t) = CallKey(person', result', source')]_vars

\* C2: after any sequence of upsert_match calls, matched_records holds at
\* most one row per (person id, source, record type, year, parish, result
\* given name, result surname) tuple, null years and parishes included.
C2_OneRowPerKey ==
    \A t1 \in table : \A t2 \in table : KeyOf(t1) = KeyOf(t2) => t1 = t2

\* C3: a call with a matching row whose uniqueness key is that of a stored
\* row overwrites the stored row: the row count is unchanged and the row's
\* timestamp and non-key fields are those of this call.
C3_SecondCallOverwrites ==
    [][(/\ calls' = calls + 1
        /\ ret' = "True"
        /\ \E t \in table : KeyOf(t) = CallKey(person', result', source'))
       => /\ Cardinality(table') = Cardinality(table)
          /\ \A t \in table' :
                KeyOf(t) = CallKey(person', result', source')
                => /\ t.found_timestamp = clock'
                   /\ t.act = Get(result', "act", <<>>)
                   /\ t.father_given_name = Get(result', "father_given_name", <<>>)
                   /\ t.mother_given_name = Get(result', "mother_given_name", <<>>)
                   /\ t.mother_surname = Get(result', "mother_surname", <<>>)
                   /\ t.locality = Get(result', "locality", <<>>)
                   /\ t.link = Get(result', "link", <<>>)
                   /\ t.raw_data = result']_vars

\* C4: for a row carrying a given name and a surname, upsert_match decides
\* for a match (returns true) exactly when the first tokens of the two given
\* names are equal ignoring case and the trimmed surnames are equal ignoring
\* case; a given name that only starts with the person's first name is no match.
C4_MatchDecision ==
    (ret # "none" /\ RowHasNames(result))
        => (ret = "True" <=> NamesAgree(person, result))

\* C4 witness: "a A" matched by the row "A": first token only, ignoring case
C4_Witness ==
    /\ ret = "True"
    /\ person.given_name = <<"a", " ", "A">>
    /\ result["given_name"] = <<"A">>
    /\ person.surname = <<"k">>
    /\ result["surname"] = <<"K">>

\* C5: first-token extraction never fails: for a given name that is empty or
\* made only of spaces extract_first_name returns the empty text, and
\* upsert_match given a row with such a given name returns false.
C5_BlankGivenNameNeverFails ==
    (ret # "none" /\ "given_name" \in DOMAIN result /\ result["given_name"] # None
        /\ "surname" \in DOMAIN result /\ result["surname"] # None
        /\ ~HasToken(result["given_name"]))
        => /\ ExtractFirstName(result["given_name"]) = [exc |-> "", val |-> <<>>]
           /\ ret = "False"

----------------------------------------------------------------------------
(* Vocabulary of the properties of region resolution *)

CommasOf(s) == {i \in 1..Len(s) : s[i] = ","}

\* the text has at least n comma-separated segments
HasSegment(s, n) == Cardinality(CommasOf(s)) >= n - 1

\* the n-th comma-separated segment of a text that has one
SegmentOf(s, n) ==
    LET cs    == CommasOf(s)
        nth(k) == CHOOSE i \in cs : Cardinality({j \in cs : j < i}) = k - 1
        from  == IF n = 1 THEN 1 ELSE nth(n - 1) + 1
        to    == IF Cardinality(cs) < n THEN Len(s) ELSE nth(n) - 1
    IN  SubSeq(s, from, to)

\* the alias-table entries whose key is the 4th segment of the place string,
\* trimmed and upper-cased
AliasesOf(pl) ==
    {e \in VOIVODESHIP_MAPPING :
        HasSegment(pl, 4) /\ SameIgnoringCase(Trimmed(SegmentOf(pl, 4)), e[1])
            /\ e[1] = Upper(e[1])}

\* the town of the place string: its first segment, trimmed
TownOf(pl) == Trimmed(SegmentOf(pl, 1))

\* a parse_voivodeship call on pl gets as far as the persistent cache: pl is
\* a non-empty text new to this instance, geocoding is enabled, the alias
\* table misses and there is a town
LookupReached(pl) ==
    /\ pl # NoCall /\ pl # None /\ pl # <<>>
    /\ pl \notin DOMAIN cache
    /\ use_nominatim
    /\ AliasesOf(pl) = {}
    /\ TownOf(pl) # <<>>

----------------------------------------------------------------------------
(* Properties of parse_voivodeship *)

\* C6: parse_voivodeship called with None or the empty string returns None
\* and changes nothing: no entry is added to the in-process cache, the
\* persistent cache is neither read nor written, the geocoder is not called.
C6_EmptyPlaceNoEffect ==
    [][(place' = None \/ place' = <<>>)
        => /\ locret' = None
           /\ cache' = cache
           /\ pcache' = pcache
           /\ ~geocoded' /\ ~dbread' /\ ~dbwrite']_vars

\* C6 witness: the empty string parsed with geocoding enabled after another
\* place string was parsed
C6_Witness ==
    place = <<>> /\ locret = None /\ use_nominatim /\ DOMAIN cache # {}

\* C7: when the 4th segment of the place string, trimmed and upper-cased, is
\* a key of the alias table, parse_voivodeship returns that key's canonical
\* name and neither reads the persistent cache nor calls the geocoder.
C7_AliasHitNoLookup ==
    (place # NoCall /\ place # None)
        => \A e \in AliasesOf(place) : locret = e[2] /\ ~dbread /\ ~geocoded

\* C7 witness: a padded lower-case alias resolved with geocoding enabled
C7_Witness ==
    /\ use_nominatim
    /\ place = <<" ","K","o"," ",","," ",","," ",","," ","m","a","s","o","v","i","a"," ">>
    /\ locret = <<"m","a","z","o","w","i","e","c","k","i","e">>

\* C8: a repeated parse_voivodeship call on the same instance returns what
\* the first call returned and neither calls the geocoder nor touches the
\* persistent cache, whatever the first outcome was.
C8_RepeatedCallCached ==
    seen => /\ locret = first[place]
            /\ ~geocoded /\ ~dbread /\ ~dbwrite

\* C8 witness: a repeated call for a town whose geocoder call had raised
C8_Witness ==
    seen /\ use_nominatim /\ locret = None /\ TownOf(place) \in failed

\* C9: when the call gets as far as the persistent cache, the geocoder is
\* called exactly when the cache holds no entry for the town: an entry,
\* found or not found, is returned as it is.
C9_GeocodeIffNotCached ==
    [][LookupReached(place')
        => /\ geocoded' <=> TownOf(place') \notin DOMAIN pcache
           /\ TownOf(place') \in DOMAIN pcache
                => locret' = pcache[TownOf(place')] /\ pcache' = pcache]_vars

\* C9 witness: a 'looked up, not found' entry answered the call
C9_Witness ==
    /\ place # NoCall /\ place # None /\ ~seen
    /\ TownOf(place) \in DOMAIN pcache /\ pcache[TownOf(place)] = None
    /\ dbread /\ ~geocoded /\ locret = None

\* C10: when the geocoder call raises, parse_voivodeship returns None, the
\* persistent cache gets no entry for the town, and the next call that gets
\* as far as the persistent cache for that town calls the geocoder again.
C10_GeocoderFailureNotCached ==
    [][LookupReached(place')
        => /\ TownOf(place') \in failed => geocoded'
           /\ (geocoded' /\ TownOf(place') \in failed')
                => /\ locret' = None
                   /\ pcache' = pcache
                   /\ TownOf(place') \notin DOMAIN pcache']_vars

\* C10 witness: the first call of a new instance calls the geocoder for a
\* town whose geocoder call had raised in an earlier run
C10_Witness ==
    hadfailed /\ geocoded /\ DOMAIN first = {place}

----------------------------------------------------------------------------
(* Vocabulary of the properties of the geocoding fallback *)

\* the positions of a text at which the word 'wojewodztwo' starts
WordStarts(s) ==
    {i \in 1..(Len(s) - Len(Wojewodztwo) + 1) :
        \A k \in 1..Len(Wojewodztwo) : s[i + k - 1] = Wojewodztwo[k]}

\* what follows the first occurrence of the word in a text that has it
AfterWord(s) ==
    LET i == CHOOSE i \in WordStarts(s) : \A j \in WordStarts(s) : i <= j
    IN  SubSeq(s, i + Len(Wojewodztwo), Len(s))

\* the comma-delimited segments of a text that contain the word and a token
\* after it
RegionSegments(s) ==
    {n \in 1..(Cardinality(CommasOf(s)) + 1) :
        WordStarts(SegmentOf(s, n)) # {} /\ HasToken(AfterWord(SegmentOf(s, n)))}

\* the value parse_voivodeship would hand over if it raised a storage fault
StorageFault == <<"<sqlite3.Error>">>

\* the latest call called the geocoder, the geocoder returned an answer (a
\* location or none) and storing it did not fail
Answered ==
    geocoded /\ location.kind \in {"None", "Location"} /\ ~writefault

----------------------------------------------------------------------------
(* Properties of the geocoding fallback *)

\* C11: when the geocoder's address has a comma-delimited segment containing
\* the word 'wojewodztwo', first in the address or after a comma and a space,
\* the region returned is the token that follows the word in that segment.
C11_RegionIsTokenAfterWord ==
    (Answered /\ location.kind = "Location")
        => \A n \in RegionSegments(location.address) :
              (\A m \in RegionSegments(location.address) : n <= m)
                => locret = FirstToken(AfterWord(SegmentOf(location.address, n)))

\* C12: every geocoder call that returns an answer leaves an entry for the
\* town in the persistent cache, and the geocoder is never called for a town
\* it has answered before, in this run or an earlier one.
C12_AnsweredTownNeverRequeried ==
    [][geocoded'
        => /\ Answered' => TownOf(place') \in DOMAIN pcache'
           /\ TownOf(place') \notin answered]_vars

\* C13: when the persistent-cache write of a parse_voivodeship call fails
\* with a storage fault, the call raises that fault; it does not return None.
C13_WriteFaultPropagates ==
    writefault => locret = StorageFault /\ locret # None

----------------------------------------------------------------------------
(* Properties of the record store's queries and of the audit table *)

\* C14: has_matched_records(person_id) returns True exactly when
\* matched_records holds a row with that person id, False otherwise, and
\* leaves the table as it was.
C14_HasMatchedRecords ==
    [][lookup' # NoLookup
        => /\ table' = table
           /\ lookupret' = IF \E t \in table : t.person_id = lookup' THEN "True" ELSE "False"]_vars

\* C15: every row a site search returned and process_matches went through is
\* in retrieved_records afterwards, whether upsert_match took it for a match
\* or not.
C15_EveryRowAudited ==
    calls > 0 => \E t \in retrieved : t.raw_data = result /\ t.person_id = person.id

----------------------------------------------------------------------------
(* Vocabulary of the properties of the queries and of the run *)

\* the number a text of decimal digits writes
RECURSIVE NumberOf(_)
NumberOf(s) ==
    IF s = <<>> THEN 0
    ELSE LET c == s[Len(s)]
             d == CASE c = "0" -> 0 [] c = "1" -> 1 [] c = "2" -> 2 [] c = "3" -> 3
                    [] c = "4" -> 4 [] c = "5" -> 5 [] c = "6" -> 6 [] c = "7" -> 7
                    [] c = "8" -> 8 [] c = "9" -> 9
         IN  10 * NumberOf(SubSeq(s, 1, Len(s) - 1)) + d

\* the year window of a form: <<from, to>>, or <<>> when it carries none
WindowOf(f, from, to) ==
    IF from \in DOMAIN f.fields /\ to \in DOMAIN f.fields
    THEN <<NumberOf(f.fields[from]), NumberOf(f.fields[to])>>
    ELSE IF from \notin DOMAIN f.fields /\ to \notin DOMAIN f.fields THEN <<>>
    ELSE <<0>>

\* the window around an anchor year, none when the year is unknown
WindowAround(year, before, after) ==
    IF year = NoYear THEN <<>> ELSE <<year - before, year + after>>

\* the forms on hand are those of driver d run for the current person
FormsAreOf(d) == driver = d /\ <<cur, d>> \in invoked

\* the field a driver's form keeps the given name in, and the surname
GivenField(site) ==
    CASE site = "Geneteka" -> "search_name"
      [] site = "PTG PomGenBaza" -> "mim"
      [] site = "Poznan Project" -> "firstname1"
      [] site = "BaSIA" -> "firstname"

SurnameField(site) ==
    CASE site = "Geneteka" -> "search_lastname"
      [] site = "PTG PomGenBaza" -> "mnz"
      [] site = "Poznan Project" -> "surname"
      [] site = "BaSIA" -> "lastname"

\* the place string names the home country: it contains Poland or Polska,
\* in any case of the letters
NamesHomeCountry(pl) ==
    \E w \in {POLAND, POLSKA} :
        \E i \in 1..(Len(pl) - Len(w) + 1) : SameIgnoringCase(SubSeq(pl, i, i + Len(w) - 1), w)

\* the person's location is known and foreign: no region, a place string
\* set, and no set place string naming the home country
KnownForeign(p) ==
    /\ p.birth_voivodeship = None /\ p.death_voivodeship = None
    /\ \E pl \in {p.birth_place, p.death_place} : pl # None /\ pl # <<>>
    /\ \A pl \in {p.birth_place, p.death_place} :
            (pl # None /\ pl # <<>>) => ~NamesHomeCountry(pl)

----------------------------------------------------------------------------
(* Properties of the queries and of the run *)

\* C16: every Geneteka query for births carries the window [birth year - 5,
\* birth year + 5], for marriages [birth year + 25 - 10, birth year + 25 + 10],
\* for deaths [death year - 5, death year + 5], and no window at all when
\* the anchor year is unknown.
C16_GenetekaYearWindows ==
    FormsAreOf("geneteka")
        => \A f \in forms :
            WindowOf(f, "from_date", "to_date")
              = CASE f.fields["bdm"] = <<"B">> -> WindowAround(persons[cur].birth_year, 5, 5)
                  [] f.fields["bdm"] = <<"M">> ->
                        IF persons[cur].birth_year = NoYear THEN <<>>
                        ELSE WindowAround(persons[cur].birth_year + 25, 10, 10)
                  [] f.fields["bdm"] = <<"D">> -> WindowAround(persons[cur].death_year, 5, 5)

\* C16 witness: a person born in 1978 whose death year is unknown: the
\* marriage query carries 1993 to 2013, the death query no window
C16_Witness ==
    /\ FormsAreOf("geneteka")
    /\ persons[cur].birth_year = 1978 /\ persons[cur].death_year = NoYear
    /\ \E f \in forms : f.fields["bdm"] = <<"M">>
            /\ f.fields["from_date"] = <<"1","9","9","3">>
            /\ f.fields["to_date"] = <<"2","0","1","3">>
    /\ \E f \in forms : f.fields["bdm"] = <<"D">> /\ "from_date" \notin DOMAIN f.fields
    /\ \E f \in forms : f.fields["bdm"] = <<"B">>

\* C17: a Geneteka search is constrained to the person's birth region when
\* it is set, to the death region when the birth region is absent, and goes
\* over all 16 regions only when both are absent.
C17_RegionConstraint ==
    FormsAreOf("geneteka")
        => LET p      == persons[cur]
               region == IF p.birth_voivodeship # None THEN p.birth_voivodeship
                         ELSE p.death_voivodeship
           IN  IF region # None
               THEN \A f \in forms : <<region, f.fields["w"]>> \in VOIVODESHIP_CODES
               ELSE forms # {}
                      => {f.fields["w"] : f \in forms} = {vc[2] : vc \in VOIVODESHIP_CODES}

\* C18: in the form of each of the four drivers the given name is the first
\* whitespace-delimited token of the person's given name, not filled in when
\* the given name is empty, and the surname is the person's surname as it is.
C18_FormNames ==
    (driver # "none" /\ <<cur, driver>> \in invoked)
        => \A f \in forms :
            /\ IF HasToken(persons[cur].given_name)
               THEN /\ GivenField(f.site) \in DOMAIN f.fields
                    /\ f.fields[GivenField(f.site)] = FirstToken(persons[cur].given_name)
               ELSE GivenField(f.site) \notin DOMAIN f.fields
            /\ IF persons[cur].surname # <<>>
               THEN /\ SurnameField(f.site) \in DOMAIN f.fields
                    /\ f.fields[SurnameField(f.site)] = persons[cur].surname
               ELSE SurnameField(f.site) \notin DOMAIN f.fields

\* C18 witness: the Poznan Project form of a person with two given names and
\* a surname in two words
C18_Witness ==
    /\ FormsAreOf("poznan")
    /\ persons[cur].given_name = <<"a"," ","A">>
    /\ \E f \in forms : /\ f.fields["firstname1"] = <<"a">>
                        /\ f.fields["surname"] = <<"K"," ","k">>

\* C19: has_polish_connection returns False exactly when the person has no
\* region, has a place string set, and no set place string names Poland or
\* Polska; in every other case it returns True.
C19_PolishConnection ==
    [][(pc = "geneteka" /\ pc' = "ptg" /\ "geneteka" \in databases)
        => (polish' = "False" <=> KnownForeign(persons[cur]))]_vars

\* C20: the Geneteka driver is never run for a person whose
\* has_polish_connection is False and no row from Geneteka is stored for
\* such a person; every other selected driver has been run for a person when
\* the loop goes on to the next one.
C20_GenetekaGated ==
    [][/\ \A i \in 1..Len(persons) :
            ~has_polish_connection(persons[i])
                => /\ <<i, "geneteka">> \notin invoked'
                   /\ \A t \in table' :
                        ~(t.person_id = persons[i].id /\ t.source = <<"Geneteka">>)
       /\ cur' = cur + 1
            => \A d \in databases \ {"geneteka"} : <<cur, d>> \in invoked']_vars

\* C20 witness: a finished run over two persons with all drivers selected:
\* for the one without a Polish connection exactly the other three drivers
\* were run, for the other a row from Geneteka is stored
C20_Witness ==
    /\ cur = 3 /\ Len(persons) = 2 /\ databases = AllDatabases
    /\ \E i \in 1..2 :
         /\ ~has_polish_connection(persons[i])
         /\ {d \in AllDatabases : <<i, d>> \in invoked} = {"ptg", "poznan", "basia"}
    /\ \E t \in table : t.source = <<"Geneteka">>

\* driver d is due for the person at index i: it is selected, and for
\* Geneteka the person has a Polish connection
Due(i, d) ==
    /\ d \in databases
    /\ d = "geneteka" => has_polish_connection(persons[i])

\* the run is over: the loop has gone past the last person
RunComplete == cur = Len(persons) + 1

\* C21: whatever drivers fail, and however often, the run reaches its end
\* with every selected driver run for every person of the list (Geneteka for
\* the persons with a Polish connection): no failure of a driver stops the
\* run or makes it skip a later driver or person.
C21_RunCompletesDespiteFailures ==
    <>(/\ RunComplete
       /\ \A i \in 1..Len(persons) : \A d \in AllDatabases :
             Due(i, d) => <<i, d>> \in invoked)

\* C21 witness: the end of a run over two persons with all four drivers
\* selected in which each of the eight driver runs failed
C21_Witness ==
    /\ RunComplete /\ Len(persons) = 2 /\ databases = AllDatabases
    /\ Len(trace) = 8
    /\ nfailed = 8

\* the place of a driver in the order Geneteka, PTG, Poznan Project, BaSIA
Rank(d) ==
    CASE d = "geneteka" -> 1
      [] d = "ptg"      -> 2
      [] d = "poznan"   -> 3
      [] d = "basia"    -> 4

\* driver run e comes before driver run f in person-major, fixed driver order
Precedes(e, f) ==
    \/ e.person < f.person
    \/ e.person = f.person /\ Rank(e.driver) < Rank(f.driver)

\* C22: in one run every driver run comes strictly after all earlier ones in
\* the order person by person, and within a person Geneteka, PTG, Poznan
\* Project, BaSIA - so no driver is run twice for a person and a failed
\* query is not repeated; a driver is run only when every row of the
\* previous result has been handed to upsert_match, and rows leave the
\* pending result only one at a time, by being handed to upsert_match for
\* the current person under the driver's source name.
C22_OrderedOnceEach ==
    [][/\ Len(trace') > Len(trace)
            => /\ details = <<>>
               /\ trace'[Len(trace')].person = cur
               /\ \A j \in 1..Len(trace) : Precedes(trace[j], trace'[Len(trace')])
       /\ (details' # details /\ trace' = trace)
            => /\ details # <<>>
               /\ details' = Tail(details)
               /\ calls' = calls + 1
               /\ result' = Head(details)
               /\ person' = persons[cur]
               /\ source' = SourceOf(driver)]_vars

\* C22 witness: the end of a run over two persons with all four drivers
\* selected: eight driver runs, one of them failed, and rows were handed to
\* upsert_match
C22_Witness ==
    /\ RunComplete /\ Len(persons) = 2 /\ databases = AllDatabases
    /\ Len(trace) = 8
    /\ nfailed >= 1 /\ nfailed < 8
    /\ calls >= 2

\* the row names the person: a row with given_name and surname fields has
\* both filled and agrees with the person under the match rule; a row of the
\* other formats carries the person's name, given name then surname, in
\* its name or groom field
RowNames(r, p) ==
    IF "given_name" \in DOMAIN r \/ "surname" \in DOMAIN r
    THEN RowHasNames(r) /\ NamesAgree(p, r)
    ELSE /\ p.given_name # <<>> /\ p.surname # <<>>
         /\ \E k \in {"name", "groom"} \cap DOMAIN r :
                r[k] = p.given_name \o <<" ">> \o p.surname

\* C23: when process_matches hands a row that names the queried person to
\* upsert_match, whichever of the four drivers returned it, the
\* matched-records table then holds that row for the person under the
\* driver's source name.
C23_NamingRowsPersisted ==
    [][(calls' = calls + 1 /\ RowNames(result', person'))
        => \E t \in table' : /\ t.person_id = person'.id
                              /\ t.source = source'
                              /\ t.raw_data = result']_vars

----------------------------------------------------------------------------
(* Properties of the paging loop *)

\* C24: with max_pages given, whatever integer it is, a query never has
\* more than max_pages result pages parsed (none for a max_pages below
\* one); with max_pages None a query whose paging ended without an error
\* has had every result page parsed, so that no enabled Next button is left.
C24_MaxPagesBound ==
    /\ max_pages # <<>> => nparsed <= (IF max_pages[1] > 0 THEN max_pages[1] ELSE 0)
    /\ (max_pages = <<>> /\ ploop = "done" /\ ended # "error") => nparsed = npages

----------------------------------------------------------------------------
(* Properties across the resolver, the store and the drivers *)

\* the region names for which the Geneteka driver has a code
CodedRegions == {vc[1] : vc \in VOIVODESHIP_CODES}

\* C25: whatever parse_voivodeship returns that is not None - from the
\* alias table, from the persistent cache or from a geocoder answer - is
\* one of the 16 region names for which the Geneteka driver has a code.
C25_ResolvedRegionHasCode ==
    (locret # NoCall /\ locret # None) => locret \in CodedRegions

\* C26: every row of matched_records satisfies the match rule on its own
\* columns: the person's and the result's given name have the same first
\* token ignoring case, and the person's and the result's surname are equal
\* ignoring case and surrounding whitespace.
C26_StoredRowsMatch ==
    \A t \in table :
        /\ HasToken(t.person_given_name) /\ HasToken(t.result_given_name)
        /\ SameIgnoringCase(FirstToken(t.person_given_name), FirstToken(t.result_given_name))
        /\ SameIgnoringCase(Trimmed(t.person_surname), Trimmed(t.result_surname))

\* C26 witness: after two calls the table holds two rows, one of them stored
\* for a person whose names differ from the row's in case, another for a
\* person with a second given name
C26_Witness ==
    /\ calls = 2 /\ Cardinality(table) = 2
    /\ \E t \in table : /\ t.person_given_name = <<"A">> /\ t.result_given_name = <<"a">>
                        /\ t.person_surname = <<"K">> /\ t.result_surname = <<"k">>
    /\ \E t \in table : t.person_given_name = <<"a"," ","A">>

\* C27: for a person with an empty given name or an empty surname
\* upsert_match returns False whatever the row, and nothing is stored.
C27_NamelessPersonNeverStored ==
    (calls = 1 /\ (person.given_name = <<>> \/ person.surname = <<>>))
        => (ret = "False" /\ table = {})

----------------------------------------------------------------------------
(* Properties of the record browser *)

\* C28: whatever keys were pressed, current_row selects a record of
\* filtered_records when the list is not empty and is 0 when it is empty.
C28_CurrentRowValid ==
    IF filtered_records # <<>>
    THEN 0 <= current_row /\ current_row < Len(filtered_records)
    ELSE current_row = 0

\* C29: while only navigation keys have been pressed on the list as loaded,
\* in a terminal with room for at least one record row, the selected row is
\* within the rows drawn: 0 <= scroll_offset <= current_row < scroll_offset
\* + (height - 4).
C29_SelectedRowOnScreen ==
    (navonly /\ height - 4 >= 1)
        => /\ 0 <= scroll_offset
           /\ scroll_offset <= current_row
           /\ current_row < scroll_offset + (height - 4)

\* C29 witness: after navigation keys alone the window has moved down a list
\* longer than the screen, and the last record is selected on the window's
\* last row
C29_Witness ==
    /\ navonly
    /\ height - 4 = 2 /\ Len(filtered_records) = 3
    /\ scroll_offset = 1 /\ current_row = 2

\* the text contains the query, letter case apart
ContainsIgnoringCase(text, q) ==
    \E i \in 0..(Len(text) - Len(q)) :
        \A j \in 1..Len(q) : UpperCh(text[i + j]) = UpperCh(q[j])

\* one of the record's searched fields contains the query
RecordHas(r, q) ==
    \E i \in 1..Len(SearchFields) :
        /\ SearchFields[i] \in DOMAIN r
        /\ r[SearchFields[i]] # None
        /\ ContainsIgnoringCase(r[SearchFields[i]], q)

\* the records having the query, in the order loaded
RecordsHaving(q) ==
    LET Has(r) == RecordHas(r, q)
    IN  SelectSeq(records, Has)

\* C30: whatever keys were pressed, filtered_records is the list of the
\* loaded records, in their order, of which a searched field contains
\* search_query ignoring case - all of them when search_query is empty.
C30_FilteredIsQueryResult ==
    filtered_records = RecordsHaving(search_query)

====
